---- MODULE Spec2Model ----
(***************************************************************************)
(* Move classification and accuracy scoring of Checkmate.io.               *)
(*                                                                         *)
(* The module models `analyse` (lib/chess/analysis) and the helpers of     *)
(* lib/chess/classification it calls.  Probabilities are fixed-point       *)
(* numbers in millionths (0.02 is 20000); centipawn values and mate        *)
(* distances are integers, white-relative where the code stores them.      *)
(***************************************************************************)
EXTENDS Integers, Sequences, FiniteSets, TLC

(***************************************************************************)
(* Bounds of the model.                                                    *)
(***************************************************************************)
\* number of moves of the analysed game (positions 0..MaxMoves)
MaxMoves == 2
\* pieces the hanging-piece scan may report for one move
MaxSacrificed == 1
\* positions of a game handed to the engine, info lines the engine sends for
\* one of them, their depths and multipv indices
MaxFens == 2
MaxInfo == 2
DepthInfo == 3
\* calls of analyzePGN, the games they are called on, and the calls when
\* the engine also sends info lines
MaxRuns == 3
MaxGames == 2
RestartRuns == 2
RestartInfo == 1
MaxDepth == 2
MaxMultiPv == 2
\* number of moves of a game whose accuracy pass is run on its own
AccuracyPlies == 7

(***************************************************************************)
(* enum Classification                                                     *)
(***************************************************************************)
BRILLIANT == "brilliant"
GREAT == "great"
BEST == "best"
EXCELLENT == "excellent"
GOOD == "good"
INACCURACY == "inaccuracy"
MISTAKE == "mistake"
BLUNDER == "blunder"
MISS == "miss"
BOOK == "book"
FORCED == "forced"

Classification ==
    {BRILLIANT, GREAT, BEST, EXCELLENT, GOOD, INACCURACY, MISTAKE, BLUNDER,
     MISS, BOOK, FORCED}

\* `classification: undefined` of a position record
Unset == "undefined"

(***************************************************************************)
(* Optional numbers (`mateIn?: number`).                                   *)
(***************************************************************************)
None == [has |-> FALSE, v |-> 0]
Some(x) == [has |-> TRUE, v |-> x]
Times(opt, m) == IF opt.has THEN Some(opt.v * m) ELSE None

Abs(x) == IF x < 0 THEN -x ELSE x
Max(a, b) == IF a >= b THEN a ELSE b
Min(a, b) == IF a <= b THEN a ELSE b

(***************************************************************************)
(* Win probability.  WinTable is 1 / (1 + 10^(-cp/400)) in millionths,     *)
(* rounded to the nearest millionth, for the centipawn values the model    *)
(* uses.  On these values every comparison of a probability or of a        *)
(* probability difference with a threshold of the code (0.0001, 0.01,      *)
(* 0.02, 0.05, 0.10, 0.15, 0.20) has the same outcome in millionths as in  *)
(* IEEE doubles.                                                           *)
(***************************************************************************)
WinTable ==
    (-3000 :> 0) @@ (-700 :> 17472) @@ (-650 :> 23164) @@ (-600 :> 30653) @@
    (-550 :> 40463) @@ (-400 :> 90909) @@ (-320 :> 136807) @@
    (-300 :> 150980) @@ (-250 :> 191682) @@ (-200 :> 240253) @@
    (-150 :> 296615) @@ (-100 :> 359935) @@ (-50 :> 428537) @@
    (-45 :> 435600) @@ (-30 :> 456934) @@ (-10 :> 485613) @@ (0 :> 500000) @@
    (10 :> 514387) @@ (30 :> 543066) @@ (45 :> 564400) @@ (50 :> 571463) @@
    (100 :> 640065) @@ (150 :> 703385) @@ (200 :> 759747) @@
    (250 :> 808318) @@ (300 :> 849020) @@ (320 :> 863193) @@
    (400 :> 909091) @@ (550 :> 959537) @@ (600 :> 969347) @@
    (650 :> 976836) @@ (700 :> 982528) @@ (3000 :> 1000000)

getMateWinProbability(mateIn) == IF mateIn > 0 THEN 999000 ELSE 1000

\* getWinningChance reading the centipawns also when a mate distance is given
getWinningChanceCentipawnsOnly(centipawns, mateIn) == WinTable[centipawns]

getWinningChance(centipawns, mateIn) ==
    IF mateIn.has THEN getMateWinProbability(mateIn.v) ELSE WinTable[centipawns]

getEPL(bestPostCp, actualPostCp, bestMateIn, actualMateIn) ==
    getWinningChance(bestPostCp, bestMateIn)
        - getWinningChance(actualPostCp, actualMateIn)

(***************************************************************************)
(* shouldBeMiss: the five rules, in the order of the code.                 *)
(***************************************************************************)
MissEPL == 100000
TacticalCp == 300
TacticalMate == 5
MateStepCp == 100
HugeGap == 500
MinTacticalGap == 200
MinEvalLoss == 150

TacticalGap(bestPostEval, secondBestPostEval, bestMateIn, secondBestMateIn) ==
    IF bestMateIn.has /\ secondBestMateIn.has
    THEN Abs(bestMateIn.v - secondBestMateIn.v) * MateStepCp
    ELSE IF bestMateIn.has THEN HugeGap
    ELSE Abs(bestPostEval - secondBestPostEval)

\* EvalLoss with the mate cases left out: the plain centipawn difference
EvalLossCentipawnsOnly(bestPostEval, playedPostEval, bestMateIn, playedMateIn) ==
    bestPostEval - playedPostEval
EvalLoss(bestPostEval, playedPostEval, bestMateIn, playedMateIn) ==
    IF bestMateIn.has /\ playedMateIn.has
    THEN (bestMateIn.v - playedMateIn.v) * MateStepCp
    ELSE IF bestMateIn.has THEN HugeGap
    ELSE bestPostEval - playedPostEval

shouldBeMiss(bestPostEval, secondBestPostEval, playedPostEval, bestMateIn, secondBestMateIn, playedMateIn, playedMoveUCI, bestMoveUCI) ==
    IF playedMoveUCI # "" /\ bestMoveUCI # "" /\ playedMoveUCI = bestMoveUCI
    THEN FALSE
    ELSE IF getEPL(bestPostEval, playedPostEval, bestMateIn, playedMateIn) < MissEPL
    THEN FALSE
    ELSE IF ~(bestPostEval >= TacticalCp
              \/ (bestMateIn.has /\ bestMateIn.v > 0 /\ bestMateIn.v <= TacticalMate))
    THEN FALSE
    ELSE IF TacticalGap(bestPostEval, secondBestPostEval, bestMateIn,
                        secondBestMateIn) < MinTacticalGap
    THEN FALSE
    ELSE EvalLoss(bestPostEval, playedPostEval, bestMateIn, playedMateIn)
            >= MinEvalLoss

(***************************************************************************)
(* Position.ts: Evaluation, EngineLine, EvaluatedPosition.                 *)
(* A line whose `evaluation` is missing has hasEval = FALSE.  The fen of   *)
(* a position is kept as its side to move; the board library's answers     *)
(* about a fen are kept in `board`, drawn when the code first asks.        *)
(***************************************************************************)
CpEval(v) == [type |-> "cp", value |-> v, mateIn |-> None]
MateEval(v, m) == [type |-> "mate", value |-> v, mateIn |-> Some(m)]
TypedZero(t) == [type |-> t, value |-> 0, mateIn |-> None]

EngineLine(id, depth, ev, uci) ==
    [id |-> id, depth |-> depth, hasEval |-> TRUE, evaluation |-> ev,
     moveUCI |-> uci]
MalformedLine(id, depth, uci) ==
    [id |-> id, depth |-> depth, hasEval |-> FALSE,
     evaluation |-> TypedZero("cp"), moveUCI |-> uci]

\* fields analyse attaches to a position (`(position as any).x = ...`)
NoCache ==
    [cached |-> FALSE, bestAfterWhite |-> 0, playedAfterWhite |-> 0,
     bestMateInWhite |-> None, playedMateInWhite |-> None,
     prevEvalWhite |-> 0, prevMateInWhite |-> None, EPL |-> 0]

NewPosition(blackToMove, uci, lines) ==
    [blackToMove |-> blackToMove, uci |-> uci, topLines |-> lines,
     classification |-> Unset, opening |-> FALSE, cache |-> NoCache]

(***************************************************************************)
(* Inputs.  Evaluations are white-relative.  A mate-scored line carries    *)
(* the placeholder value the engine hook gives it.                         *)
(***************************************************************************)
CpValues == {-400, -100, -30, -10, 0, 400}
SecondCpValues == {-400, 400}
MatePlaceholder == 3000
MateDistance == 3
SearchDepth == 20

BestEvals ==
    {CpEval(v) : v \in CpValues}
        \cup {MateEval(MatePlaceholder, MateDistance),
              MateEval(-MatePlaceholder, -MateDistance)}
SecondEvals == {CpEval(v) : v \in SecondCpValues}

\* PV1 alone, PV1 and PV2, PV1 and a PV2 line without evaluation, no line
TopLinesInputs ==
    {<<EngineLine(1, SearchDepth, e, "pv1")>> : e \in BestEvals}
        \cup {<<EngineLine(1, SearchDepth, e, "pv1"),
                EngineLine(2, SearchDepth, f, "pv2")>> :
                    e \in BestEvals, f \in SecondEvals}
        \cup {<<EngineLine(1, SearchDepth, CpEval(0), "pv1"),
                MalformedLine(2, SearchDepth, "pv2")>>}
        \cup {<<>>}

\* PV1 lines around the demotion thresholds; the type Evaluation lets a line
\* carry a mate distance whose sign its value does not share, which the
\* engine hook never builds
DemotionCpValues == {-650, -600, -550, 0, 550, 600, 650}
DemotionMates == {None, Some(-MateDistance), Some(MateDistance)}
DemotionLinesInputs ==
    {<<EngineLine(1, SearchDepth,
                  [type |-> IF m.has THEN "mate" ELSE "cp", value |-> v, mateIn |-> m],
                  "pv1")>> :
        v \in DemotionCpValues, m \in DemotionMates}

\* position.move.uci: the PV1 move of the position before, or another move;
\* Unread until the code reads it (the Forced rule comes first)
PlayedMoves == {"pv1", "other"}
Unread == "unread"
\* board.isCheckmate(), asked only of a position without a PV1 evaluation; a
\* position another move is played from is no checkmate
CheckmateAnswers(lines, isLast) ==
    IF \E k \in 1..Len(lines) : lines[k].id = 1 /\ lines[k].hasEval
    THEN {"unasked"}
    ELSE IF isLast THEN {"yes", "no"} ELSE {"no"}
\* board.moves().length: none in a checkmate, none in a stalemate, which like
\* a checkmate ends the game; a position the engine evaluated has a legal move
LegalCounts(lines, isLast, isCheckmate) ==
    IF isCheckmate = "yes" THEN {0}
    ELSE IF lines = <<>> /\ isLast THEN {0, 1, 2}
    ELSE {1, 2}

\* topLines.find(line => line.id == id)
HasLine(lines, id) == \E k \in 1..Len(lines) : lines[k].id = id
FindLine(lines, id) ==
    lines[CHOOSE k \in 1..Len(lines) :
            /\ lines[k].id = id
            /\ \A j \in 1..(k - 1) : lines[j].id # id]

(***************************************************************************)
(* analyse: the locals of one iteration of the classification loop, as     *)
(* functions of lastPosition (last) and position (pos, after a missing     *)
(* PV1 line has been synthesized).                                         *)
(***************************************************************************)
moveColor(pos) == IF pos.blackToMove THEN "white" ELSE "black"
moverMultiplier(pos) == IF moveColor(pos) = "white" THEN 1 ELSE -1
prevMoverMultiplier(pos) == -moverMultiplier(pos)

topMove(last) == FindLine(last.topLines, 1)
hasSecondTopMove(last) == HasLine(last.topLines, 2)
secondTopMove(last) == FindLine(last.topLines, 2)
previousEvaluation(last) == topMove(last).evaluation
evaluation(pos) == FindLine(pos.topLines, 1).evaluation

bestAfterWhite(last) == topMove(last).evaluation.value
bestMateInWhite(last) == topMove(last).evaluation.mateIn
playedAfterWhite(pos) == evaluation(pos).value
playedMateInWhite(pos) == evaluation(pos).mateIn

bestAfterMover(last, pos) == bestAfterWhite(last) * moverMultiplier(pos)
playedAfterMover(pos) == playedAfterWhite(pos) * moverMultiplier(pos)
bestMateInMover(last, pos) == Times(bestMateInWhite(last), moverMultiplier(pos))
playedMateInMover(pos) == Times(playedMateInWhite(pos), moverMultiplier(pos))

WinProbBest(last, pos) ==
    getWinningChance(bestAfterMover(last, pos), bestMateInMover(last, pos))
WinProbPlayed(pos) ==
    getWinningChance(playedAfterMover(pos), playedMateInMover(pos))
ExpectedPointsLoss(last, pos) == WinProbBest(last, pos) - WinProbPlayed(pos)

\* the fields stored on the position, lines 393-399
\* CacheOf storing the mover-relative locals instead of the white-relative ones
CacheOfMover(last, pos) ==
    [cached |-> TRUE,
     bestAfterWhite |-> bestAfterMover(last, pos),
     playedAfterWhite |-> playedAfterMover(pos),
     bestMateInWhite |-> bestMateInMover(last, pos),
     playedMateInWhite |-> playedMateInMover(pos),
     prevEvalWhite |-> previousEvaluation(last).value * prevMoverMultiplier(pos),
     prevMateInWhite |->
        Times(previousEvaluation(last).mateIn, prevMoverMultiplier(pos)),
     EPL |-> ExpectedPointsLoss(last, pos)]
\* CacheOf adding the loss to the EPL the position already carries
CacheOfAccumulating(last, pos) ==
    [cached |-> TRUE,
     bestAfterWhite |-> bestAfterWhite(last),
     playedAfterWhite |-> playedAfterWhite(pos),
     bestMateInWhite |-> bestMateInWhite(last),
     playedMateInWhite |-> playedMateInWhite(pos),
     prevEvalWhite |-> previousEvaluation(last).value,
     prevMateInWhite |-> previousEvaluation(last).mateIn,
     EPL |-> pos.cache.EPL + ExpectedPointsLoss(last, pos)]

CacheOf(last, pos) ==
    [cached |-> TRUE,
     bestAfterWhite |-> bestAfterWhite(last),
     playedAfterWhite |-> playedAfterWhite(pos),
     bestMateInWhite |-> bestMateInWhite(last),
     playedMateInWhite |-> playedMateInWhite(pos),
     prevEvalWhite |-> previousEvaluation(last).value,
     prevMateInWhite |-> previousEvaluation(last).mateIn,
     EPL |-> ExpectedPointsLoss(last, pos)]

(***************************************************************************)
(* The Forced rule, lines 403-418.  legalMoves is board.moves().length of  *)
(* `board = getCachedBoard(position.fen)`.                                  *)
(***************************************************************************)
\* the Forced rule leaving the loop without writing a label
forcedClassificationSkipped == Unset
\* line 405: position.classification = Classification.FORCED
forcedClassification == FORCED

\* IsForced for positions without any legal move only
IsForcedStrict(last, legalMoves) ==
    \/ legalMoves < 1
    \/ (hasSecondTopMove(last) /\ ~secondTopMove(last).hasEval)
\* IsForced with a missing second line alone forcing the move
IsForcedWithoutSecond(last, legalMoves) ==
    \/ legalMoves <= 1
    \/ ~hasSecondTopMove(last)
    \/ (hasSecondTopMove(last) /\ ~secondTopMove(last).hasEval)
IsForced(last, legalMoves) ==
    \/ legalMoves <= 1
    \/ (~hasSecondTopMove(last) /\ legalMoves = 1)
    \/ (hasSecondTopMove(last) /\ ~secondTopMove(last).hasEval)

(***************************************************************************)
(* First stage, lines 423-458: Best, Miss or an EPL tier.                  *)
(***************************************************************************)
BestEPL == 100
ExcellentEPL == 20000
GoodEPL == 50000
InaccuracyEPL == 100000
MistakeEPL == 200000

\* IsBest without the comparison of the played move with the PV1 move
IsBestByLossOnly(epl, playedUCI, bestUCI) == epl <= BestEPL
IsBest(epl, playedUCI, bestUCI) == epl <= BestEPL \/ bestUCI = playedUCI

\* Tier with the Inaccuracy bound taken from the Mistake tier
TierMistakeMissing(epl) ==
    IF epl <= ExcellentEPL THEN EXCELLENT
    ELSE IF epl <= GoodEPL THEN GOOD
    ELSE IF epl <= MistakeEPL THEN INACCURACY
    ELSE BLUNDER
Tier(epl) ==
    IF epl <= ExcellentEPL THEN EXCELLENT
    ELSE IF epl <= GoodEPL THEN GOOD
    ELSE IF epl <= InaccuracyEPL THEN INACCURACY
    ELSE IF epl <= MistakeEPL THEN MISTAKE
    ELSE BLUNDER

\* secondTopMove?.evaluation?.value ?? bestAfterWhite, and its mateIn
missSecondAfterWhite(last) ==
    IF hasSecondTopMove(last) /\ secondTopMove(last).hasEval
    THEN secondTopMove(last).evaluation.value
    ELSE bestAfterWhite(last)
missSecondMateInWhite(last) ==
    IF hasSecondTopMove(last) /\ secondTopMove(last).hasEval
    THEN secondTopMove(last).evaluation.mateIn
    ELSE None

IsMiss(last, pos) ==
    shouldBeMiss(bestAfterMover(last, pos),
                 missSecondAfterWhite(last) * moverMultiplier(pos),
                 playedAfterMover(pos),
                 bestMateInMover(last, pos),
                 Times(missSecondMateInWhite(last), moverMultiplier(pos)),
                 playedMateInMover(pos),
                 pos.uci,
                 topMove(last).moveUCI)

FirstStage(last, pos) ==
    IF IsBest(ExpectedPointsLoss(last, pos), pos.uci, topMove(last).moveUCI)
    THEN BEST
    ELSE IF IsMiss(last, pos) THEN MISS
    ELSE Tier(ExpectedPointsLoss(last, pos))

(***************************************************************************)
(* Great, lines 461-495.                                                   *)
(***************************************************************************)
LosingProb == 150000
EqualCp == 50
WinningCp == 150
OnlyMoveSecondCp == -200
OnlyMoveBestCp == -100
SignificantGapCp == 200

\* secondTopMove?.evaluation.value || 0
upgradeSecondAfterWhite(last) ==
    IF hasSecondTopMove(last) THEN secondTopMove(last).evaluation.value ELSE 0
upgradeSecondAfterMover(last, pos) ==
    upgradeSecondAfterWhite(last) * moverMultiplier(pos)

prevEvalMover(last, pos) ==
    previousEvaluation(last).value * prevMoverMultiplier(pos)
prevMateInMover(last, pos) ==
    Times(previousEvaluation(last).mateIn, prevMoverMultiplier(pos))
prevWinProb(last, pos) ==
    getWinningChance(prevEvalMover(last, pos), prevMateInMover(last, pos))

onlyGoodMove(last, pos) ==
    /\ upgradeSecondAfterMover(last, pos) < OnlyMoveSecondCp
    /\ bestAfterMover(last, pos) >= OnlyMoveBestCp

wasLosing(last, pos) == prevWinProb(last, pos) <= LosingProb
nowEqual(pos) ==
    Abs(playedAfterMover(pos)) <= EqualCp /\ ~playedMateInMover(pos).has
wasEqual(last, pos) ==
    Abs(prevEvalMover(last, pos)) <= EqualCp /\ ~prevMateInMover(last, pos).has
nowWinning(pos) ==
    \/ playedAfterMover(pos) >= WinningCp
    \/ (playedMateInMover(pos).has /\ playedMateInMover(pos).v > 0)
isTurningPoint(last, pos) ==
    \/ (wasLosing(last, pos) /\ nowEqual(pos))
    \/ (wasEqual(last, pos) /\ nowWinning(pos))
    \/ (wasLosing(last, pos) /\ nowWinning(pos))

opponentBlundered(last) == last.classification = BLUNDER
significantGap(last) ==
    Abs(bestAfterWhite(last) - upgradeSecondAfterWhite(last)) >= SignificantGapCp

IsGreat(last, pos) ==
    \/ onlyGoodMove(last, pos)
    \/ isTurningPoint(last, pos)
    \/ (opponentBlundered(last) /\ significantGap(last))

(***************************************************************************)
(* Brilliant, lines 498-633.  What chess.js and lib/chess/board answer     *)
(* about the two boards is a probe:                                        *)
(*   promotion   position.move.san.includes("=")                           *)
(*   inCheck     lastBoard.isCheck()                                       *)
(*   sacrificed  the pieces of the mover the scan of lines 533-554 found   *)
(*               hanging, in scan order; each with its piece value and the *)
(*               capture attempts of lines 565-618 in loop order.  An      *)
(*               attempt is legal or throws; a legal one leaves the        *)
(*               attacker pinned or not, and the capturing side's reply    *)
(*               mate in one or not.                                       *)
(***************************************************************************)
TriviallyWinningCp == 300
RookValue == 5
\* pieceValues of the pieces the scan keeps (it skips kings and pawns)
PieceValues == {3, 5}

winningAnyways(last, pos) ==
    \/ /\ bestMateInMover(last, pos).has
       /\ bestMateInMover(last, pos).v > 0
       /\ upgradeSecondAfterMover(last, pos) >= TriviallyWinningCp
    \/ /\ ~bestMateInMover(last, pos).has
       /\ bestAfterMover(last, pos) >= TriviallyWinningCp
       /\ upgradeSecondAfterMover(last, pos) >= TriviallyWinningCp

\* the guard of line 510 without the SAN test
sacrificeEligible(last, pos) ==
    playedAfterMover(pos) >= 0 /\ ~winningAnyways(last, pos)

Attempts ==
    {[legal |-> FALSE, attackerPinned |-> FALSE, mateInOne |-> FALSE]}
        \cup {[legal |-> TRUE, attackerPinned |-> a, mateInOne |-> m] :
                a \in BOOLEAN, m \in BOOLEAN}
SacrificedPieces ==
    {[value |-> v, attempts |-> t] :
        v \in PieceValues, t \in {<<a>> : a \in Attempts}}

RECURSIVE SeqsUpTo(_, _)
SeqsUpTo(S, n) ==
    IF n = 0 THEN {<<>>}
    ELSE SeqsUpTo(S, n - 1)
            \cup {Append(q, x) : q \in {r \in SeqsUpTo(S, n - 1) : Len(r) = n - 1},
                                 x \in S}

NoProbe == [asked |-> FALSE, promotion |-> FALSE, inCheck |-> FALSE,
            sacrificed |-> <<>>]
\* what the boards answer: lastBoard.isCheck(), and the hanging pieces of
\* currentBoard, which the code goes on to scan when the mover was not in check
Scanned(inCheck, q) ==
    [asked |-> TRUE, promotion |-> FALSE, inCheck |-> inCheck, sacrificed |-> q]
Probes ==
    {[asked |-> TRUE, promotion |-> TRUE, inCheck |-> FALSE, sacrificed |-> <<>>]}
        \cup {Scanned(c, q) :
                c \in BOOLEAN, q \in SeqsUpTo(SacrificedPieces, MaxSacrificed)}

\* the probes of a whole game: no hanging piece, or one whose capture is
\* legal, leaves the attacker unpinned and allows mate in one; a mover in
\* check has a rook hanging
GameProbes ==
    {p \in Probes :
        /\ p.inCheck => Len(p.sacrificed) = 1 /\ p.sacrificed[1].value = RookValue
        /\ \A k \in 1..Len(p.sacrificed) :
            /\ k = 1
            /\ p.sacrificed[k].attempts =
                <<[legal |-> TRUE, attackerPinned |-> FALSE, mateInOne |-> TRUE]>>}

\* attemptViable with a rook or more accepted whatever the pin test says
attemptViableRookAnyPin(piece, attempt) ==
    /\ attempt.legal
    /\ IF piece.value >= RookValue
       THEN TRUE
       ELSE ~attempt.attackerPinned /\ ~attempt.mateInOne

\* lines 603-614: does this capture make the sacrifice viable
attemptViable(piece, attempt) ==
    /\ attempt.legal
    /\ IF piece.value >= RookValue
       THEN ~attempt.attackerPinned
       ELSE ~attempt.attackerPinned /\ ~attempt.mateInOne

anyPieceViablyCapturable(sacrificed) ==
    \E k \in 1..Len(sacrificed) :
        \E j \in 1..Len(sacrificed[k].attempts) :
            attemptViable(sacrificed[k], sacrificed[k].attempts[j])

\* IsBrilliant without the test that the mover was in check
IsBrilliantNoCheckTest(last, pos, probe) ==
    /\ sacrificeEligible(last, pos)
    /\ ~probe.promotion
    /\ Len(probe.sacrificed) > 0
    /\ anyPieceViablyCapturable(probe.sacrificed)
IsBrilliant(last, pos, probe) ==
    /\ sacrificeEligible(last, pos)
    /\ ~probe.promotion
    /\ ~probe.inCheck
    /\ Len(probe.sacrificed) > 0
    /\ anyPieceViablyCapturable(probe.sacrificed)

(***************************************************************************)
(* Blunder demotion, lines 637-647.                                        *)
(***************************************************************************)
StillWinningCp == 600
AlreadyLostCp == -600

\* Demoted with the played eval compared strictly
DemotedStrict(last, pos, label) ==
    IF label = BLUNDER /\ playedAfterMover(pos) > StillWinningCp THEN GOOD
    ELSE IF label = BLUNDER /\ bestAfterMover(last, pos) <= AlreadyLostCp THEN GOOD
    ELSE label

\* Demoted sparing every Blunder that leaves the mover no worse than equal
DemotedWhenNotWorse(last, pos, label) ==
    IF label = BLUNDER /\ playedAfterMover(pos) >= 0 THEN GOOD
    ELSE IF label = BLUNDER /\ bestAfterMover(last, pos) <= AlreadyLostCp THEN GOOD
    ELSE label

Demoted(last, pos, label) ==
    IF label = BLUNDER /\ playedAfterMover(pos) >= StillWinningCp THEN GOOD
    ELSE IF label = BLUNDER /\ bestAfterMover(last, pos) <= AlreadyLostCp THEN GOOD
    ELSE label

\* Refined applying the Great test whatever the first-stage label
RefinedGreatFromAnyLabel(last, pos, probe, label) ==
    LET upgraded ==
            IF IsGreat(last, pos) THEN GREAT
            ELSE IF label # BEST THEN label
            ELSE IF IsBrilliant(last, pos, probe) THEN BRILLIANT
            ELSE BEST
        demoted == Demoted(last, pos, upgraded)
    IN  IF demoted = Unset THEN BOOK ELSE demoted

\* Refined trying the Great and Brilliant upgrades on Excellent moves too
RefinedUpgradingExcellent(last, pos, probe, label) ==
    LET upgraded ==
            IF label \notin {BEST, EXCELLENT} THEN label
            ELSE IF IsGreat(last, pos) THEN GREAT
            ELSE IF IsBrilliant(last, pos, probe) THEN BRILLIANT
            ELSE label
        demoted == Demoted(last, pos, upgraded)
    IN  IF demoted = Unset THEN BOOK ELSE demoted

\* lines 461-649: the label the iteration leaves, from the first-stage label
Refined(last, pos, probe, label) ==
    LET upgraded ==
            IF label # BEST THEN label
            ELSE IF IsGreat(last, pos) THEN GREAT
            ELSE IF IsBrilliant(last, pos, probe) THEN BRILLIANT
            ELSE BEST
        demoted == Demoted(last, pos, upgraded)
    IN  IF demoted = Unset THEN BOOK ELSE demoted

(***************************************************************************)
(* Book overlay, lines 662-676, from array index k on.                     *)
(***************************************************************************)
BookEPL == 10000

\* (position as any).EPL || 0
StoredEPL(pos) == IF pos.cache.cached THEN pos.cache.EPL ELSE 0

\* BookOverlay going on after a move that fails the book condition
RECURSIVE BookOverlayNoStop(_, _, _, _)
BookOverlayNoStop(ps, k, last, bookEnded) ==
    IF k > last THEN ps
    ELSE IF ps[k].opening /\ StoredEPL(ps[k]) < BookEPL
    THEN BookOverlayNoStop([ps EXCEPT ![k].classification = BOOK], k + 1, last, FALSE)
    ELSE BookOverlayNoStop(ps, k + 1, last, TRUE)

RECURSIVE BookOverlay(_, _, _, _)
BookOverlay(ps, k, last, bookEnded) ==
    IF k > last \/ bookEnded THEN ps
    ELSE IF ps[k].opening /\ StoredEPL(ps[k]) < BookEPL
    THEN BookOverlay([ps EXCEPT ![k].classification = BOOK], k + 1, last, FALSE)
    ELSE BookOverlay(ps, k + 1, last, TRUE)

(***************************************************************************)
(* SAN pass, lines 680-696: reading line.evaluation.type of a line with    *)
(* no evaluation throws, outside the try block.                            *)
(***************************************************************************)
SanPassThrows(ps, last) ==
    \E k \in 0..last : \E l \in 1..Len(ps[k].topLines) : ~ps[k].topLines[l].hasEval

(***************************************************************************)
(* Accuracy and tallies, lines 699-781.  A move accuracy of 100 is         *)
(* FullAccuracy; `maximum` counts the contributing moves.                  *)
(***************************************************************************)
FullAccuracy == 100000000
LenientPerCent == 70
StrictPerCent == 100

accPrevEvalMover(pos) == pos.cache.prevEvalWhite * prevMoverMultiplier(pos)
accPrevMateInMover(pos) == Times(pos.cache.prevMateInWhite, prevMoverMultiplier(pos))
wasAlreadyLosing(pos) ==
    getWinningChance(accPrevEvalMover(pos), accPrevMateInMover(pos)) <= LosingProb
leniencyFactor(pos) == IF wasAlreadyLosing(pos) THEN LenientPerCent ELSE StrictPerCent
\* moveAccuracy without the upper clamp
moveAccuracyUnclamped(pos) ==
    Max(0, FullAccuracy - StoredEPL(pos) * leniencyFactor(pos))

moveAccuracy(pos) ==
    Max(0, Min(FullAccuracy, FullAccuracy - StoredEPL(pos) * leniencyFactor(pos)))

Contributes(pos) == pos.classification # BOOK /\ pos.classification # FORCED

RECURSIVE SumAccuracy(_, _, _)
SumAccuracy(ps, k, color) ==
    IF k = 0 THEN [current |-> 0, maximum |-> 0]
    ELSE LET rest == SumAccuracy(ps, k - 1, color)
         IN  IF moveColor(ps[k]) = color /\ Contributes(ps[k])
             THEN [current |-> rest.current + moveAccuracy(ps[k]),
                   maximum |-> rest.maximum + 1]
             ELSE rest

Tally(ps, last, color) ==
    [c \in Classification |->
        Cardinality({k \in 1..last :
                        moveColor(ps[k]) = color /\ ps[k].classification = c})]

NoReport ==
    [accuracies |-> [white |-> [current |-> 0, maximum |-> 0],
                     black |-> [current |-> 0, maximum |-> 0]],
     classifications |-> [white |-> [c \in Classification |-> 0],
                          black |-> [c \in Classification |-> 0]]]

ReportOf(ps, last) ==
    [accuracies |-> [white |-> SumAccuracy(ps, last, "white"),
                     black |-> SumAccuracy(ps, last, "black")],
     classifications |-> [white |-> Tally(ps, last, "white"),
                          black |-> Tally(ps, last, "black")]]

\* lines 776-777: the accuracy returned for a side, in millionths of a point
\* and rounded down
reportedAccuracy(acc) ==
    IF acc.maximum > 0 THEN acc.current \div acc.maximum ELSE FullAccuracy

(***************************************************************************)
(* Arguments of a direct call of shouldBeMiss (mover-relative values).     *)
(***************************************************************************)
MissCpValues == {-320, 100, 150, 300, 400}
MissMates == {None, Some(-3), Some(1), Some(3), Some(6)}
MissArgs ==
    [bestPostEval : MissCpValues, secondBestPostEval : MissCpValues,
     playedPostEval : MissCpValues, bestMateIn : MissMates,
     secondBestMateIn : MissMates, playedMateIn : MissMates,
     playedMoveUCI : {"pv1", "other"}, bestMoveUCI : {"pv1", ""}]
NoMissArgs ==
    [bestPostEval |-> 0, secondBestPostEval |-> 0, playedPostEval |-> 0,
     bestMateIn |-> None, secondBestMateIn |-> None, playedMateIn |-> None,
     playedMoveUCI |-> "", bestMoveUCI |-> ""]

(***************************************************************************)
(* State.                                                                  *)
(*   numMoves       positions.length - 1                                   *)
(*   positions      the array analyse mutates, the part read so far        *)
(*   given          the topLines each position was passed in with          *)
(*   board          the board library's answers, per position index        *)
(*   positionIndex  the loop index of the classification pass              *)
(*   pc             where analyse is                                       *)
(*   report         the returned Report (accuracies as current/maximum)    *)
(***************************************************************************)
VARIABLES numMoves, positions, given, board, positionIndex, pc, report,
          previous, missArgs, missResult, chanceArgs, chanceResult,
          engine, hook

gameVars ==
    <<numMoves, positions, given, board, positionIndex, pc, report, previous>>
missVars == <<missArgs, missResult>>
chanceVars == <<chanceArgs, chanceResult>>
hookVars == <<engine, hook>>
vars == <<gameVars, missVars, chanceVars, hookVars>>

\* getWinningChance not called
NoChanceArgs == [centipawns |-> 0, other |-> 0, mateIn |-> None]
NoChanceResult ==
    [called |-> FALSE, value |-> 0, otherValue |-> 0, negatedValue |-> 0]
ChanceIdle == chanceArgs = NoChanceArgs /\ chanceResult = NoChanceResult

(***************************************************************************)
(* useStockfishEngine.  A FEN is the pair of a game and the index of the   *)
(* position in it; every game starts from the same position.  White is to  *)
(* move in the positions of even index.                                    *)
(***************************************************************************)
FenOf(game, index) == IF index = 0 THEN <<0, 0>> ELSE <<game, index>>
WhiteToMove(fen) == fen[2] % 2 = 0

\* analyzeGame, lines 361-369; `run` tells the calls of analyzeGame apart
JobOf(run, game, index) ==
    [fen |-> FenOf(game, index), moveNumber |-> index, run |-> run]
NoJob == [fen |-> <<0, 0>>, moveNumber |-> -1, run |-> 0]

\* updateNode, lines 104-113: the node a FEN has before its first update
DefaultNode ==
    [score |-> 0, mateIn |-> None, bestMove |-> 0, depth |-> 0,
     multiPv |-> <<>>, moveNumber |-> 0, run |-> 0]

\* updateNode, lines 103-124: `data` is a function from some of the fields of
\* a node to their new values
updateNode(map, fen, data) ==
    LET existing == IF fen \in DOMAIN map THEN map[fen] ELSE DefaultNode
    IN  (fen :> [f \in DOMAIN existing |->
                    IF f \in DOMAIN data THEN data[f] ELSE existing[f]]) @@ map

\* lines 150-178: the locals a started job closes over, and its timeout
NewClosure(job) ==
    [job |-> job, currentDepth |-> 0, snapshot |-> <<>>,
     hasReceivedData |-> FALSE, isComplete |-> FALSE,
     timeout |-> "armed", answered |-> FALSE, advanced |-> 0, seen |-> 0]

\* lines 126-178: processNextJob on the hook's state e
processNextJob(e) ==
    IF e.queue = <<>>
    THEN [e EXCEPT !.isAnalyzing = FALSE, !.currentJob = NoJob]
    ELSE [e EXCEPT !.queue = Tail(@),
                   !.currentJob = Head(e.queue),
                   !.progress.current = @ + 1,
                   !.closures = Append(@, NewClosure(Head(e.queue)))]

\* lines 159-169 and 317-327: the node written when no data was received
defaultData(job) ==
    [moveNumber |-> job.moveNumber, depth |-> 0, score |-> 0, bestMove |-> 0,
     multiPv |-> <<>>, run |-> job.run]

\* lines 153-173: the timeout of the job of closure k fires
timeoutHandler(e, k) ==
    LET c == e.closures[k]
    IN  IF c.isComplete THEN [e EXCEPT !.closures[k].timeout = "fired"]
        ELSE [e EXCEPT
                !.closures[k].timeout = "fired",
                !.closures[k].isComplete = TRUE,
                !.closures[k].advanced = @ + 1,
                !.analysisMap = IF c.hasReceivedData THEN @
                                ELSE updateNode(@, c.job.fen, defaultData(c.job)),
                !.pendingNext = @ + 1]

\* bestmoveHandler without the isComplete guard of lines 303-306
bestmoveHandlerUnguarded(e, k, bestMove) ==
    [e EXCEPT !.closures[k].answered = TRUE,
              !.closures[k].isComplete = TRUE,
              !.closures[k].timeout = "cleared",
              !.closures[k].advanced = @ + 1,
              !.pendingNext = @ + 1]

\* lines 301-345: the callback of `go` on the bestmove line
bestmoveHandler(e, k, bestMove) ==
    LET c == e.closures[k]
        withDefault ==
            IF c.hasReceivedData THEN e.analysisMap
            ELSE updateNode(e.analysisMap, c.job.fen, defaultData(c.job))
        withBest ==
            IF /\ bestMove # 0
               /\ c.job.fen \in DOMAIN withDefault
               /\ withDefault[c.job.fen].bestMove # bestMove
            THEN updateNode(withDefault, c.job.fen,
                            [bestMove |-> bestMove, run |-> c.job.run])
            ELSE withDefault
    IN  IF c.isComplete THEN [e EXCEPT !.closures[k].answered = TRUE]
        ELSE [e EXCEPT
                !.closures[k].answered = TRUE,
                !.closures[k].isComplete = TRUE,
                !.closures[k].timeout = "cleared",
                !.closures[k].advanced = @ + 1,
                !.analysisMap = withBest,
                !.pendingNext = @ + 1]

\* an info line of the engine: its depth, its multipv index, its score from
\* the side to move, whether it carries a pv, whether it is a bound
InfoLine(depth, multipv, type, value, pv, bound) ==
    [depth |-> depth, multipv |-> multipv, type |-> type, value |-> value,
     pv |-> pv, bound |-> bound]

\* PVLineOf storing the engine's value as reported, stmMultiplier left out
PVLineOfSideToMove(job, line) ==
    LET rawScore == IF line.type = "cp" THEN line.value
                    ELSE IF line.value > 0 THEN MatePlaceholder
                    ELSE -MatePlaceholder
    IN  [move |-> line.multipv,
         score |-> rawScore,
         mateIn |-> IF line.type = "mate" THEN Some(line.value) ELSE None,
         depth |-> line.depth]

\* lines 205-231: the white-relative line stored for an info line
PVLineOf(job, line) ==
    LET rawScore == IF line.type = "cp" THEN line.value
                    ELSE IF line.value > 0 THEN MatePlaceholder
                    ELSE -MatePlaceholder
        stmMultiplier == IF WhiteToMove(job.fen) THEN 1 ELSE -1
    IN  [move |-> line.multipv,
         score |-> rawScore * stmMultiplier,
         mateIn |-> IF line.type = "mate" THEN Some(line.value * stmMultiplier)
                    ELSE None,
         depth |-> line.depth]

\* lines 272-275: the lines of a snapshot in the order of their multipv index
sortedMultiPv(snapshot) ==
    [j \in 1..Cardinality(DOMAIN snapshot) |->
        snapshot[CHOOSE m \in DOMAIN snapshot :
                    Cardinality({o \in DOMAIN snapshot : o < m}) = j - 1]]

\* streamHandler keeping the lines of the depth before, lines 201-205 left out
streamHandlerKeepingSnapshot(e, k, line) ==
    LET c == e.closures[k]
        seen == [e EXCEPT !.closures[k].seen = @ + 1]
    IN  IF line.bound \/ line.depth < c.currentDepth THEN seen
        ELSE
            LET snapshot == IF line.pv
                            THEN (line.multipv :> PVLineOf(c.job, line)) @@ c.snapshot
                            ELSE c.snapshot
                fromSnapshot ==
                    [moveNumber |-> c.job.moveNumber, depth |-> line.depth,
                     multiPv |-> sortedMultiPv(snapshot), run |-> c.job.run]
                data == IF 1 \in DOMAIN snapshot
                        THEN [score |-> snapshot[1].score,
                              mateIn |-> snapshot[1].mateIn,
                              bestMove |-> snapshot[1].move] @@ fromSnapshot
                        ELSE fromSnapshot
            IN  [seen EXCEPT
                    !.closures[k].currentDepth = line.depth,
                    !.closures[k].snapshot = snapshot,
                    !.closures[k].hasReceivedData = @ \/ line.pv,
                    !.analysisMap = IF snapshot = <<>> THEN @
                                    ELSE updateNode(@, c.job.fen, data)]

\* lines 180-296: streamHandler of closure k on an info line
streamHandler(e, k, line) ==
    LET c == e.closures[k]
        seen == [e EXCEPT !.closures[k].seen = @ + 1]
    IN  IF line.bound \/ line.depth < c.currentDepth THEN seen
        ELSE
            LET reset == IF line.depth > c.currentDepth THEN <<>> ELSE c.snapshot
                snapshot == IF line.pv
                            THEN (line.multipv :> PVLineOf(c.job, line)) @@ reset
                            ELSE reset
                fromSnapshot ==
                    [moveNumber |-> c.job.moveNumber, depth |-> line.depth,
                     multiPv |-> sortedMultiPv(snapshot), run |-> c.job.run]
                data == IF 1 \in DOMAIN snapshot
                        THEN [score |-> snapshot[1].score,
                              mateIn |-> snapshot[1].mateIn,
                              bestMove |-> snapshot[1].move] @@ fromSnapshot
                        ELSE fromSnapshot
            IN  [seen EXCEPT
                    !.closures[k].currentDepth = line.depth,
                    !.closures[k].snapshot = snapshot,
                    !.closures[k].hasReceivedData = @ \/ line.pv,
                    !.analysisMap = IF snapshot = <<>> THEN @
                                    ELSE updateNode(@, c.job.fen, data)]

\* lines 348-379: analyzeGame on the positions of `game`, n of them
analyzeGame(e, game, n) ==
    processNextJob(
        [e EXCEPT !.analysisMap = <<>>,
                  !.isAnalyzing = TRUE,
                  !.progress = [current |-> 0, total |-> n],
                  !.queue = [i \in 1..n |-> JobOf(e.run + 1, game, i - 1)],
                  !.currentJob = NoJob,
                  !.run = @ + 1])

\* lines 40-50 and 75-79: the hook mounted, the engine loaded and ready
ReadyEngine ==
    [isReady |-> TRUE, isAnalyzing |-> FALSE,
     progress |-> [current |-> 0, total |-> 0],
     queue |-> <<>>, currentJob |-> NoJob, analysisMap |-> <<>>,
     closures |-> <<>>, pendingNext |-> 0, run |-> 0]

\* the hooks not mounted
NoEngine == [ReadyEngine EXCEPT !.isReady = FALSE]
NoData == [present |-> FALSE, game |-> 0, fens |-> 0]

\* useStockfishAnalysis.ts lines 177-192: the hook mounted.  `runs` counts the
\* calls of analyzePGN that went on to the engine, `invoked` lists, for each
\* call of analyse, what the effect saw when it made it
MountedHook ==
    [mounted |-> TRUE, isAnalyzing |-> FALSE, isAnalyzingRef |-> FALSE,
     isProcessingRef |-> FALSE, analysisData |-> NoData, runs |-> 0,
     invoked |-> <<>>]

NoHook == [MountedHook EXCEPT !.mounted = FALSE]
HookIdle == engine = NoEngine /\ hook = NoHook

NoBoard == [legalMoves |-> None, isCheckmate |-> "unasked", probe |-> NoProbe]

\* what an earlier run of analyse on the same array returned; none at first
NoRun == [returned |-> FALSE, labels |-> <<>>, report |-> NoReport]

\* analyse entered on a game whose engine lines come from `inputs`
InitWith(inputs) ==
    /\ numMoves \in 1..MaxMoves
    /\ \E lines \in inputs :
        /\ positions = (0 :> NewPosition(FALSE, "", lines))
        /\ given = (0 :> lines)
    /\ board = (0 :> NoBoard)
    /\ positionIndex = 1
    /\ pc = "classify"
    /\ report = NoReport
    /\ previous = NoRun
    /\ missArgs = NoMissArgs
    /\ missResult = "idle"
    /\ ChanceIdle
    /\ HookIdle

Init == InitWith(TopLinesInputs)

\* the loop of lines 303-651 moves on to the next position, or ends
Advance ==
    IF positionIndex = numMoves
    THEN pc' = "passes" /\ positionIndex' = positionIndex
    ELSE pc' = "classify" /\ positionIndex' = positionIndex + 1

HasEvaluation(lines) == HasLine(lines, 1) /\ FindLine(lines, 1).hasEval

\* lines 352-360: the line pushed when the position has no PV1 evaluation
Synthesized(isCheckmate) ==
    EngineLine(1, 0, TypedZero(IF isCheckmate THEN "mate" ELSE "cp"), "")

\* lines 303-458 on the position `start` the loop finds at positionIndex:
\* synthesize a missing PV1 line, store the white-relative fields, apply the
\* Forced rule and the first stage.  The boards answer isCheckmate() with one
\* of `mates`, moves().length with one of legals[mate], and the move played is
\* one of `ucis`.
ClassifyStep(start, mates, legals, ucis) ==
    LET i == positionIndex
        last == positions[i - 1]
    IN  IF ~HasEvaluation(last.topLines)
        THEN /\ positions' = (i :> start) @@ positions
             /\ board' = board @@ (i :> NoBoard)
             /\ Advance
        ELSE \E mate \in mates :
             \E legalMoves \in legals[mate] :
             LET withLine ==
                     IF HasEvaluation(start.topLines) THEN start
                     ELSE [start EXCEPT !.topLines =
                             Append(@, Synthesized(mate = "yes"))]
                 pos == [withLine EXCEPT !.cache = CacheOf(last, withLine)]
                 asked == IF i \in DOMAIN board THEN board[i] ELSE NoBoard
             IN  /\ board' =
                         (i :> [legalMoves |-> Some(legalMoves),
                                isCheckmate |-> IF mate = "unasked"
                                                THEN asked.isCheckmate ELSE mate,
                                probe |-> asked.probe]) @@ board
                 /\ IF IsForced(last, legalMoves)
                    THEN /\ positions' =
                             (i :> [pos EXCEPT !.classification =
                                     forcedClassification]) @@ positions
                         /\ Advance
                    ELSE \E uci \in ucis :
                         LET moved == [pos EXCEPT !.uci = uci]
                         IN  /\ positions' =
                                 (i :> [moved EXCEPT !.classification =
                                         FirstStage(last, moved)]) @@ positions
                             /\ pc' = "refine"
                             /\ positionIndex' = positionIndex

\* the loop reads a position for the first time, its lines one of `inputs`
ClassifyWith(inputs) ==
    /\ pc = "classify"
    /\ \E lines \in inputs :
        /\ given' = given @@ (positionIndex :> lines)
        /\ ClassifyStep(NewPosition(~positions[positionIndex - 1].blackToMove,
                                    Unread, lines),
                        CheckmateAnswers(lines, positionIndex = numMoves),
                        [m \in CheckmateAnswers(lines, positionIndex = numMoves)
                            |-> LegalCounts(lines, positionIndex = numMoves, m)],
                        PlayedMoves)
    /\ UNCHANGED <<numMoves, report, previous, missVars, chanceVars, hookVars>>

Classify == ClassifyWith(TopLinesInputs)

\* lines 461-649: Great, Brilliant, blunder demotion, the Book fallback; the
\* boards answer with one of `probes` when the Brilliant test consults them
RefineWith(probes) ==
    /\ pc = "refine"
    /\ LET i == positionIndex
           last == positions[i - 1]
           pos == positions[i]
       IN  \E probe \in IF /\ pos.classification = BEST
                           /\ ~IsGreat(last, pos)
                           /\ sacrificeEligible(last, pos)
                        THEN probes ELSE {NoProbe} :
            /\ positions' = [positions EXCEPT
                    ![i].classification = Refined(last, pos, probe, @)]
            /\ board' = [board EXCEPT ![i].probe = probe]
    /\ Advance
    /\ UNCHANGED <<numMoves, given, report, previous, missVars, chanceVars, hookVars>>

Refine == RefineWith(GameProbes)

\* lines 654-676: the openings named (the name of positions[0] is never read),
\* then Book overlaid on the named prefix
Booked(ps, last, named) ==
    BookOverlay([k \in 0..last |->
                    [ps[k] EXCEPT !.opening = (k >= 1 /\ named[k])]],
                1, last, FALSE)

\* lines 654-781: the opening and book passes, the SAN pass, which may throw,
\* and the accuracies and tallies of the report; the opening book names the
\* positions as one of `namings` says
PassesWith(namings) ==
    /\ pc = "passes"
    /\ \E named \in namings :
        /\ positions' = Booked(positions, numMoves, named)
        /\ IF SanPassThrows(positions, numMoves)
           THEN pc' = "threw" /\ report' = report
           ELSE /\ pc' = "done"
                /\ report' = ReportOf(Booked(positions, numMoves, named), numMoves)
    /\ UNCHANGED <<numMoves, given, board, positionIndex, previous, missVars, chanceVars, hookVars>>

Passes == PassesWith([1..numMoves -> BOOLEAN])

Next == Classify \/ Refine \/ Passes

Spec == Init /\ [][Next]_vars

(***************************************************************************)
(* analyse called a second time on the game it has returned from: on the   *)
(* array the first run mutated, or on a fresh copy of what was passed in.  *)
(* The boards, the moves and the opening book are those of the first run:  *)
(* what it read of them is read again, what it never read is drawn.        *)
(***************************************************************************)
RerunLinesInputs ==
    {lines \in TopLinesInputs :
        \/ lines = <<>>
        \/ /\ Len(lines) = 1
           /\ lines[1].evaluation \in {CpEval(-400), CpEval(0), CpEval(400)}
        \/ /\ Len(lines) = 2
           /\ lines[2].hasEval
           /\ lines[1].evaluation \in {CpEval(0), CpEval(400)}}

InFirstRun == ~previous.returned

ClassifyFirst == InFirstRun /\ ClassifyWith(RerunLinesInputs)

RefineFirst == InFirstRun /\ Refine

PassesFirst == InFirstRun /\ Passes

\* what the first run returned
Returns ==
    [returned |-> TRUE,
     labels |-> [k \in 0..numMoves |-> positions[k].classification],
     report |-> report]

\* analyse entered again, lines 290-303, on the array as the first run left it
AnalyseAgain ==
    /\ pc = "done"
    /\ InFirstRun
    /\ previous' = Returns
    /\ pc' = "classify"
    /\ positionIndex' = 1
    /\ report' = NoReport
    /\ UNCHANGED <<numMoves, positions, given, board, missVars, chanceVars, hookVars>>

\* analyse entered again on a copy of the positions as they were passed in:
\* the lines given, the move and its opening name, no label, no cached field
AnalyseCopy ==
    /\ pc = "done"
    /\ InFirstRun
    /\ previous' = Returns
    /\ positions' = [k \in 0..numMoves |->
                        [NewPosition(positions[k].blackToMove, positions[k].uci,
                                     given[k])
                            EXCEPT !.opening = positions[k].opening]]
    /\ pc' = "classify"
    /\ positionIndex' = 1
    /\ report' = NoReport
    /\ UNCHANGED <<numMoves, given, board, missVars, chanceVars, hookVars>>

\* board.isCheckmate() of a position of the second run
MatesAgain(i) ==
    IF HasEvaluation(positions[i].topLines) \/ board[i].isCheckmate = "unasked"
    THEN CheckmateAnswers(positions[i].topLines, i = numMoves)
    ELSE {board[i].isCheckmate}

\* board.moves().length of a position of the second run
LegalsAgain(i, mate) ==
    IF board[i].legalMoves.has THEN {board[i].legalMoves.v}
    ELSE LegalCounts(given[i], i = numMoves,
                     IF mate = "unasked" THEN board[i].isCheckmate ELSE mate)

ClassifyAgain ==
    /\ pc = "classify"
    /\ ~InFirstRun
    /\ ClassifyStep(positions[positionIndex],
                    MatesAgain(positionIndex),
                    [m \in MatesAgain(positionIndex)
                        |-> LegalsAgain(positionIndex, m)],
                    IF positions[positionIndex].uci = Unread
                    THEN PlayedMoves ELSE {positions[positionIndex].uci})
    /\ UNCHANGED <<numMoves, given, report, previous, missVars, chanceVars, hookVars>>

RefineAgain ==
    /\ ~InFirstRun
    /\ RefineWith(IF board[positionIndex].probe.asked
                  THEN {board[positionIndex].probe} ELSE GameProbes)

PassesAgain ==
    /\ ~InFirstRun
    /\ PassesWith({[k \in 1..numMoves |-> positions[k].opening]})

NextRerun ==
    \/ ClassifyFirst \/ RefineFirst \/ PassesFirst
    \/ AnalyseAgain \/ AnalyseCopy
    \/ ClassifyAgain \/ RefineAgain \/ PassesAgain

InitRerun == InitWith(RerunLinesInputs)

SpecRerun == InitRerun /\ [][NextRerun]_vars

(***************************************************************************)
(* analyse on a game of one move, the boards answering the Brilliant test  *)
(* with any probe: every piece value, every outcome of a capture attempt.  *)
(***************************************************************************)
InitOneMove == Init /\ numMoves = 1

RefineAnyProbe == RefineWith(Probes)

NextOneMove == Classify \/ RefineAnyProbe \/ Passes

SpecOneMove == InitOneMove /\ [][NextOneMove]_vars

(***************************************************************************)
(* analyse on a game of one move whose lines lie around the demotion       *)
(* thresholds.                                                             *)
(***************************************************************************)
InitDemotion == InitWith(DemotionLinesInputs) /\ numMoves = 1

ClassifyDemotion == ClassifyWith(DemotionLinesInputs)

NextDemotion == ClassifyDemotion \/ Refine \/ Passes

SpecDemotion == InitDemotion /\ [][NextDemotion]_vars

(***************************************************************************)
(* The accuracy pass, lines 699-781, run on its own on the positions the   *)
(* passes before it leave.  Of each position the pass reads the side to    *)
(* move, the label and the cached EPL, prevEvalWhite and prevMateInWhite;  *)
(* these are drawn, the other fields are left at zero.                     *)
(***************************************************************************)
\* what a move leaves for the pass: its EPL, its label, and whether its
\* pre-move evaluation makes the leniency test succeed
AccuracyMoves ==
    {[EPL |-> 0, label |-> BEST, lenient |-> FALSE],
     [EPL |-> 30000, label |-> GOOD, lenient |-> FALSE],
     [EPL |-> 120000, label |-> MISTAKE, lenient |-> FALSE],
     [EPL |-> 250000, label |-> BLUNDER, lenient |-> FALSE],
     [EPL |-> 250000, label |-> FORCED, lenient |-> FALSE],
     [EPL |-> -140065, label |-> BEST, lenient |-> TRUE]}

\* White, whose moves are the odd ones, draws from all of them, Black from
\* those that are Best or Forced
AccuracyMovesOf(k) ==
    IF k % 2 = 1 THEN AccuracyMoves
    ELSE {mv \in AccuracyMoves : mv.label \in {BEST, FORCED}}

AccuracyPosition(k, mv) ==
    LET blackToMove == (k % 2 = 1)
        prev == IF mv.lenient THEN (IF blackToMove THEN 400 ELSE -400) ELSE 0
    IN  [blackToMove |-> blackToMove,
         uci |-> "pv1",
         topLines |-> <<EngineLine(1, SearchDepth, CpEval(0), "pv1")>>,
         classification |-> mv.label,
         opening |-> FALSE,
         cache |-> [NoCache EXCEPT !.cached = TRUE, !.EPL = mv.EPL,
                                   !.bestAfterWhite = prev, !.prevEvalWhite = prev]]

InitAccuracy ==
    /\ numMoves \in 1..AccuracyPlies
    /\ \E moves \in {f \in [1..numMoves -> AccuracyMoves] :
                        \A k \in 1..numMoves : f[k] \in AccuracyMovesOf(k)} :
        positions = [k \in 0..numMoves |->
                        IF k = 0
                        THEN NewPosition(FALSE, "",
                                <<EngineLine(1, SearchDepth, CpEval(0), "pv1")>>)
                        ELSE AccuracyPosition(k, moves[k])]
    /\ given = [k \in 0..numMoves |-> positions[k].topLines]
    /\ board = [k \in 0..numMoves |-> NoBoard]
    /\ positionIndex = numMoves
    /\ pc = "accuracy"
    /\ report = NoReport
    /\ previous = NoRun
    /\ missArgs = NoMissArgs
    /\ missResult = "idle"
    /\ ChanceIdle
    /\ HookIdle

AccuracyPass ==
    /\ pc = "accuracy"
    /\ report' = ReportOf(positions, numMoves)
    /\ pc' = "done"
    /\ UNCHANGED <<numMoves, positions, given, board, positionIndex, previous,
                   missVars, chanceVars, hookVars>>

NextAccuracy == AccuracyPass

SpecAccuracy == InitAccuracy /\ [][NextAccuracy]_vars

(***************************************************************************)
(* shouldBeMiss called on its own.                                         *)
(***************************************************************************)
InitMiss ==
    /\ numMoves = 1
    /\ positions = (0 :> NewPosition(FALSE, "", <<>>))
    /\ given = (0 :> <<>>)
    /\ board = (0 :> NoBoard)
    /\ positionIndex = 1
    /\ pc = "idle"
    /\ report = NoReport
    /\ previous = NoRun
    /\ missArgs \in MissArgs
    /\ missResult = "pending"
    /\ ChanceIdle
    /\ HookIdle

CallShouldBeMiss ==
    /\ missResult = "pending"
    /\ missResult' =
        IF shouldBeMiss(missArgs.bestPostEval, missArgs.secondBestPostEval,
                        missArgs.playedPostEval, missArgs.bestMateIn,
                        missArgs.secondBestMateIn, missArgs.playedMateIn,
                        missArgs.playedMoveUCI, missArgs.bestMoveUCI)
        THEN "miss" ELSE "no miss"
    /\ UNCHANGED <<gameVars, missArgs, chanceVars, hookVars>>

NextMiss == CallShouldBeMiss

SpecMiss == InitMiss /\ [][NextMiss]_vars

(***************************************************************************)
(* getWinningChance called on its own: at a centipawn value, at a second   *)
(* one and at the negated one, with the same mate distance or none.        *)
(***************************************************************************)
\* analyse not entered
GameIdle ==
    /\ numMoves = 1
    /\ positions = (0 :> NewPosition(FALSE, "", <<>>))
    /\ given = (0 :> <<>>)
    /\ board = (0 :> NoBoard)
    /\ positionIndex = 1
    /\ pc = "idle"
    /\ report = NoReport
    /\ previous = NoRun

MissIdle == missArgs = NoMissArgs /\ missResult = "idle"

ChanceMates == {None, Some(-MateDistance), Some(0), Some(MateDistance)}

InitChance ==
    /\ GameIdle
    /\ MissIdle
    /\ HookIdle
    /\ chanceArgs \in [centipawns : DOMAIN WinTable, other : DOMAIN WinTable,
                       mateIn : ChanceMates]
    /\ chanceResult = NoChanceResult

CallGetWinningChance ==
    /\ ~chanceResult.called
    /\ chanceResult' =
        [called |-> TRUE,
         value |-> getWinningChance(chanceArgs.centipawns, chanceArgs.mateIn),
         otherValue |-> getWinningChance(chanceArgs.other, chanceArgs.mateIn),
         negatedValue |-> getWinningChance(-chanceArgs.centipawns,
                                           chanceArgs.mateIn)]
    /\ UNCHANGED <<gameVars, missVars, chanceArgs, hookVars>>

NextChance == CallGetWinningChance

SpecChance == InitChance /\ [][NextChance]_vars

(***************************************************************************)
(* useStockfishEngine: analyzeGame called once on a ready engine.  The     *)
(* engine sends info lines and a bestmove line for a job, or stays silent; *)
(* the timers of the hook fire.                                            *)
(***************************************************************************)
Closures == 1..Len(engine.closures)

InitEngine ==
    /\ GameIdle
    /\ MissIdle
    /\ ChanceIdle
    /\ engine = ReadyEngine
    /\ hook = NoHook

\* analyzeGame called with 1..MaxFens positions
AnalyzeGame ==
    /\ engine.isReady
    /\ engine.run = 0
    /\ \E n \in 1..MaxFens : engine' = analyzeGame(engine, 1, n)
    /\ UNCHANGED <<gameVars, missVars, chanceVars, hook>>

\* line 172 and line 344: a processNextJob scheduled by setTimeout runs
NextJobTimer ==
    /\ engine.pendingNext > 0
    /\ engine' = processNextJob([engine EXCEPT !.pendingNext = @ - 1])
    /\ UNCHANGED <<gameVars, missVars, chanceVars, hook>>

\* lines 153-173: the timeout of a job fires; the timeouts all last
\* ANALYSIS_TIME_MS + 2000, so they fire in the order the jobs were started
TimeoutFires ==
    /\ \E k \in Closures :
        /\ engine.closures[k].timeout = "armed"
        /\ \A j \in 1..(k - 1) : engine.closures[j].timeout # "armed"
        /\ engine' = timeoutHandler(engine, k)
    /\ UNCHANGED <<gameVars, missVars, chanceVars, hook>>

\* lines 301-345: the engine answers a `go` with its bestmove line, naming
\* the move of one of its lines or none
Bestmove ==
    /\ \E k \in Closures :
        /\ ~engine.closures[k].answered
        /\ \E bestMove \in 0..MaxMultiPv :
            engine' = bestmoveHandler(engine, k, bestMove)
    /\ UNCHANGED <<gameVars, missVars, chanceVars, hook>>

\* lines 180-296: the engine sends one of `lines` for a `go` it has not
\* answered, at most `limit` lines for one `go`
StreamWith(lines, limit) ==
    /\ \E k \in Closures :
        /\ ~engine.closures[k].answered
        /\ engine.closures[k].seen < limit
        /\ \E line \in lines : engine' = streamHandler(engine, k, line)
    /\ UNCHANGED <<gameVars, missVars, chanceVars, hook>>

PlainLines == {InfoLine(1, 1, "cp", 30, TRUE, FALSE)}

Stream == StreamWith(PlainLines, MaxInfo)

NextEngine == AnalyzeGame \/ NextJobTimer \/ TimeoutFires \/ Bestmove \/ Stream

SpecEngine ==
    /\ InitEngine
    /\ [][NextEngine]_vars
    /\ WF_vars(NextJobTimer)
    /\ WF_vars(TimeoutFires)

(***************************************************************************)
(* useStockfishEngine with the engine sending lines of any depth up to     *)
(* MaxDepth and any multipv index, with or without a pv, and bound lines.  *)
(***************************************************************************)
DepthLines ==
    {InfoLine(d, m, "cp", 30, pv, FALSE) :
        d \in 0..MaxDepth, m \in 1..MaxMultiPv, pv \in BOOLEAN}
        \cup {InfoLine(MaxDepth, 1, "cp", 30, TRUE, TRUE)}

StreamDepths == StreamWith(DepthLines, DepthInfo)

NextDepth ==
    AnalyzeGame \/ NextJobTimer \/ TimeoutFires \/ Bestmove \/ StreamDepths

SpecDepth == InitEngine /\ [][NextDepth]_vars

(***************************************************************************)
(* useStockfishEngine with an engine that follows UCI: a score is reported *)
(* from the side to move.  The balance of a line is what it is worth to    *)
(* White: lines of odd multipv index favour White, the others Black, at    *)
(* every ply alike.                                                        *)
(***************************************************************************)
Balance(type, multipv) ==
    LET worth == IF type = "cp" THEN 30 ELSE MateDistance
    IN  IF multipv % 2 = 1 THEN worth ELSE -worth

\* useStockfishEngine.ts lines 222-229: what the engine reports for a balance
Reported(fen, balance) == IF WhiteToMove(fen) THEN balance ELSE -balance

StreamSigns ==
    /\ \E k \in Closures :
        /\ ~engine.closures[k].answered
        /\ engine.closures[k].seen < MaxInfo
        /\ \E d \in 1..MaxDepth, m \in 1..MaxMultiPv, type \in {"cp", "mate"} :
            engine' = streamHandler(engine, k,
                        InfoLine(d, m, type,
                                 Reported(engine.closures[k].job.fen,
                                          Balance(type, m)),
                                 TRUE, FALSE))
    /\ UNCHANGED <<gameVars, missVars, chanceVars, hook>>

NextSign ==
    AnalyzeGame \/ NextJobTimer \/ TimeoutFires \/ Bestmove \/ StreamSigns

SpecSign == InitEngine /\ [][NextSign]_vars

\* useStockfishAnalysis.ts lines 291-295: the evaluation handed to analyse
\* for a stored line
topLineEvaluation(pvLine) ==
    [type |-> IF pvLine.mateIn # None THEN "mate" ELSE "cp",
     value |-> pvLine.score,
     mateIn |-> pvLine.mateIn]

(***************************************************************************)
(* useStockfishAnalysis over useStockfishEngine: analyzePGN, stopAnalysis  *)
(* and the effect that watches the engine.  The engine answers every `go`  *)
(* or lets it time out; it sends no info lines.                            *)
(***************************************************************************)
InitHook ==
    /\ GameIdle
    /\ MissIdle
    /\ ChanceIdle
    /\ engine = ReadyEngine
    /\ hook = MountedHook

\* lines 462-533: analyzePGN on a game of at least one move, the engine ready
AnalyzePGNUpTo(limit) ==
    /\ ~hook.isAnalyzingRef
    /\ hook.runs < limit
    /\ engine.isReady
    /\ \E game \in 1..MaxGames : \E n \in 2..MaxFens :
        /\ hook' = [hook EXCEPT
                        !.isAnalyzingRef = TRUE,
                        !.isProcessingRef = FALSE,
                        !.analysisData = [present |-> TRUE, game |-> game,
                                          fens |-> n],
                        !.isAnalyzing = TRUE,
                        !.runs = @ + 1]
        /\ engine' = analyzeGame(engine, game, n)
    /\ UNCHANGED <<gameVars, missVars, chanceVars>>

AnalyzePGN == AnalyzePGNUpTo(MaxRuns)

\* lines 535-539: stopAnalysis, which the page offers while state.isAnalyzing
stopAnalysis ==
    /\ hook.isAnalyzing
    /\ hook' = [hook EXCEPT !.isAnalyzingRef = FALSE,
                            !.isProcessingRef = FALSE,
                            !.isAnalyzing = FALSE]
    /\ UNCHANGED <<gameVars, missVars, chanceVars, engine>>

\* lines 228-232: the sizes the effect compares
analysisSize == Cardinality(DOMAIN engine.analysisMap)
hasSufficientData == analysisSize >= (hook.analysisData.fens * 9) \div 10

\* the positions of the game being analysed that have a node
PositionsWithNode ==
    {i \in 0..(hook.analysisData.fens - 1) :
        FenOf(hook.analysisData.game, i) \in DOMAIN engine.analysisMap}

\* lines 196-459: the effect, once the engine reports that it is done: it
\* calls analyse and publishes the report, or ends the run for want of data
Monitor ==
    /\ hook.isAnalyzing
    /\ hook.analysisData.present
    /\ ~hook.isProcessingRef
    /\ ~engine.isAnalyzing
    /\ hook' = [hook EXCEPT
                    !.isAnalyzing = FALSE,
                    !.isAnalyzingRef = FALSE,
                    !.isProcessingRef = FALSE,
                    !.analysisData = NoData,
                    !.invoked =
                        IF hasSufficientData
                        THEN Append(@, [run |-> hook.runs,
                                        fens |-> hook.analysisData.fens,
                                        size |-> analysisSize,
                                        withNode |-> Cardinality(PositionsWithNode),
                                        outstanding |->
                                            \E k \in Closures :
                                                ~engine.closures[k].isComplete])
                        ELSE @]
    /\ UNCHANGED <<gameVars, missVars, chanceVars, engine>>

\* the engine answers a `go` with `bestmove (none)`
BestmoveNone ==
    /\ \E k \in Closures :
        /\ ~engine.closures[k].answered
        /\ engine' = bestmoveHandler(engine, k, 0)
    /\ UNCHANGED <<gameVars, missVars, chanceVars, hook>>

NextHook ==
    \/ AnalyzePGN \/ stopAnalysis \/ Monitor
    \/ NextJobTimer \/ TimeoutFires \/ BestmoveNone

SpecHook == InitHook /\ [][NextHook]_vars

(***************************************************************************)
(* The same with the engine sending info lines, for RestartRuns calls of   *)
(* analyzePGN.                                                             *)
(***************************************************************************)
AnalyzePGNAgain == AnalyzePGNUpTo(RestartRuns)

RestartLines == {InfoLine(d, 1, "cp", 30, TRUE, FALSE) : d \in 1..MaxDepth}

StreamRestart == StreamWith(RestartLines, RestartInfo)

NextRestart ==
    \/ AnalyzePGNAgain \/ stopAnalysis \/ Monitor
    \/ NextJobTimer \/ TimeoutFires \/ BestmoveNone \/ StreamRestart

SpecRestart == InitHook /\ [][NextRestart]_vars

(***************************************************************************)
(* Properties.                                                             *)
(***************************************************************************)
Read == DOMAIN positions
Moves == Read \ {0}
\* the classification loop has finished with move i
Classified(i) ==
    /\ i \in Moves
    /\ (pc \in {"classify", "refine"} => i < positionIndex)
Returned == pc = "done"

\* every position was passed in with a PV1 evaluation and no line without one
FullyEvaluated ==
    \A k \in Read :
        /\ HasEvaluation(given[k])
        /\ \A l \in 1..Len(given[k]) : given[k][l].hasEval

\* +1 when White, -1 when Black is on move in position p
SideMultiplier(p) == IF p.blackToMove THEN -1 ELSE 1

\* C1 as stated: when analyse has returned on a fully evaluated sequence, every
\* position of the sequence, the initial one included, carries a label of the
\* fixed set.
C1_EveryPositionLabelled ==
    (Returned /\ FullyEvaluated) =>
        \A k \in 0..numMoves : positions[k].classification \in Classification

\* C1 amended: when analyse has returned on a fully evaluated sequence, every
\* position after the initial one carries a label of the fixed set; the initial
\* position, which no move leads to, is left unset.
C1_EveryMoveLabelled ==
    (Returned /\ FullyEvaluated) =>
        /\ \A k \in 1..numMoves : positions[k].classification \in Classification
        /\ positions[0].classification = Unset

C1_Witness ==
    /\ Returned
    /\ FullyEvaluated
    /\ numMoves = 2
    /\ positions[1].classification = FORCED
    /\ positions[2].classification = BLUNDER

\* C2: the PV1 evaluation of the pre-move position is made mover-relative with
\* the multiplier of the side on move in that pre-move position, in the EPL
\* computation, in the Great turning-point test (run on first-stage Best moves)
\* and in the accuracy leniency test (run on contributing moves).
C2_PreMoveEvalUsesSideOnMove ==
    \A i \in Moves :
        LET last == positions[i - 1]
            pos == positions[i]
            own == SideMultiplier(last)
        IN  pos.cache.cached =>
                /\ bestAfterMover(last, pos) = pos.cache.bestAfterWhite * own
                /\ (pc = "refine" /\ i = positionIndex /\ pos.classification = BEST)
                        => prevEvalMover(last, pos) = pos.cache.prevEvalWhite * own
                /\ (Returned /\ Contributes(pos))
                        => accPrevEvalMover(pos) = pos.cache.prevEvalWhite * own

\* C3: analyse leaves every line it was given as it was, and the fields it
\* caches are the white-relative inputs, no multiplier applied; equal PV1
\* values at consecutive plies are stored with one sign.
C3_StoredEvalsWhiteRelative ==
    \A k \in Read :
        /\ \A l \in 1..Len(given[k]) :
            /\ l <= Len(positions[k].topLines)
            /\ positions[k].topLines[l].evaluation = given[k][l].evaluation
        /\ (k >= 1 /\ positions[k].cache.cached) =>
            LET c == positions[k].cache
                \* a pre-move position given without a PV1 evaluation holds
                \* the zero evaluation analyse pushed on it one ply earlier
                before == IF HasEvaluation(given[k - 1])
                          THEN FindLine(given[k - 1], 1).evaluation
                          ELSE [FindLine(positions[k - 1].topLines, 1).evaluation
                                    EXCEPT !.value = 0, !.mateIn = None]
            IN  /\ FindLine(positions[k - 1].topLines, 1).evaluation = before
                /\ c.bestAfterWhite = before.value
                /\ c.bestMateInWhite = before.mateIn
                /\ c.prevEvalWhite = before.value
                /\ c.prevMateInWhite = before.mateIn
                /\ IF HasEvaluation(given[k])
                   THEN /\ c.playedAfterWhite = FindLine(given[k], 1).evaluation.value
                        /\ c.playedMateInWhite = FindLine(given[k], 1).evaluation.mateIn
                        /\ (FindLine(given[k], 1).evaluation = before
                                => c.playedAfterWhite = c.prevEvalWhite)
                   ELSE c.playedAfterWhite = 0 /\ ~c.playedMateInWhite.has

C3_Witness ==
    /\ Returned
    /\ numMoves = 2
    /\ \A k \in 0..2 : HasEvaluation(given[k])
                        /\ FindLine(given[k], 1).evaluation = CpEval(400)
    /\ positions[1].cache.playedAfterWhite = 400
    /\ positions[2].cache.playedAfterWhite = 400
    /\ positions[2].cache.prevEvalWhite = 400

\* C4: a move that is not Forced gets the first-stage label Best exactly when
\* its EPL is at most 0.0001 or it plays the PV1 move of the pre-move position;
\* a move that plays the PV1 move never carries Miss, Excellent, Good,
\* Inaccuracy, Mistake or Blunder.
C4_BestIffNoLossOrPV1 ==
    \A i \in Moves :
        LET last == positions[i - 1]
            pos == positions[i]
            playsPV1 == pos.uci = FindLine(last.topLines, 1).moveUCI
        IN  /\ (pc = "refine" /\ i = positionIndex) =>
                (pos.classification = BEST <=> (pos.cache.EPL <= 100 \/ playsPV1))
            /\ (pos.uci # Unread /\ playsPV1) =>
                pos.classification \notin
                    {MISS, EXCELLENT, GOOD, INACCURACY, MISTAKE, BLUNDER}

C4_Witness ==
    /\ pc = "refine"
    /\ positions[positionIndex].uci = "pv1"
    /\ positions[positionIndex].cache.EPL > 200000
    /\ positions[positionIndex].classification = BEST

\* C5: a first-stage label other than Best and Miss is the EPL tier, upper
\* bounds inclusive: <= 0.02 Excellent, <= 0.05 Good, <= 0.10 Inaccuracy,
\* <= 0.20 Mistake, above that Blunder.
C5_TierByEPL ==
    (pc = "refine") =>
        LET c == positions[positionIndex].classification
            e == positions[positionIndex].cache.EPL
        IN  c \notin {BEST, MISS} =>
                \/ c = EXCELLENT /\ e <= 20000
                \/ c = GOOD /\ 20000 < e /\ e <= 50000
                \/ c = INACCURACY /\ 50000 < e /\ e <= 100000
                \/ c = MISTAKE /\ 100000 < e /\ e <= 200000
                \/ c = BLUNDER /\ 200000 < e

C5_Witness ==
    /\ pc = "refine"
    /\ positions[positionIndex].classification = INACCURACY
    /\ positions[positionIndex].cache.EPL > 50000
    /\ ~positions[positionIndex].blackToMove

\* C6: shouldBeMiss is true exactly when the played move differs from the best
\* move, EPL >= 0.10, the best move is tactical (>= 300, or mate in 1..5), the
\* best-second gap is >= 200 and the best-played loss is >= 150, the loss taken
\* with the proxy of the gap: |mate distance difference| x 100 when both are
\* mate-scored, 500 when only the best is, the centipawn difference otherwise.
C6_Differs == missArgs.playedMoveUCI # missArgs.bestMoveUCI
C6_Tactical ==
    \/ missArgs.bestPostEval >= 300
    \/ (missArgs.bestMateIn.has /\ missArgs.bestMateIn.v \in 1..5)
C6_Gap ==
    IF missArgs.bestMateIn.has /\ missArgs.secondBestMateIn.has
    THEN Abs(missArgs.bestMateIn.v - missArgs.secondBestMateIn.v) * 100
    ELSE IF missArgs.bestMateIn.has THEN 500
    ELSE Abs(missArgs.bestPostEval - missArgs.secondBestPostEval)
C6_Loss ==
    IF missArgs.bestMateIn.has /\ missArgs.playedMateIn.has
    THEN Abs(missArgs.bestMateIn.v - missArgs.playedMateIn.v) * 100
    ELSE IF missArgs.bestMateIn.has THEN 500
    ELSE missArgs.bestPostEval - missArgs.playedPostEval
C6_WinChance(cp, mate) ==
    IF mate.has THEN (IF mate.v > 0 THEN 999000 ELSE 1000) ELSE WinTable[cp]
C6_MissIffFiveRules ==
    (missResult \in {"miss", "no miss"}) =>
        (missResult = "miss" <=>
            /\ C6_Differs
            /\ C6_WinChance(missArgs.bestPostEval, missArgs.bestMateIn)
                - C6_WinChance(missArgs.playedPostEval, missArgs.playedMateIn)
                    >= 100000
            /\ C6_Tactical
            /\ C6_Gap >= 200
            /\ C6_Loss >= 150)

\* best mate in 3, second best -320, played +100 and not the PV1 move: a Miss
C6_Witness ==
    /\ missResult = "miss"
    /\ missArgs.bestMateIn = Some(3)
    /\ missArgs.secondBestPostEval = -320
    /\ ~missArgs.secondBestMateIn.has
    /\ missArgs.playedPostEval = 100
    /\ ~missArgs.playedMateIn.has
    /\ missArgs.playedMoveUCI = "other"
    /\ missArgs.bestMoveUCI = "pv1"

\* the classification pass is over move i and the later passes have not run
InClassificationPass == pc \in {"classify", "refine", "passes"}

\* C7: the classification pass labels a move Forced exactly when the position
\* the mover faced before moving had at most one legal move.  (The pre-move
\* position of move i is position i - 1; its legal-move count is known to the
\* model from move 2 on, and the pre-move position's PV2 line is well formed.)
C7_ForcedIffPriorHadOneMove ==
    \A i \in Moves :
        (/\ InClassificationPass
         /\ Classified(i)
         /\ positions[i].cache.cached
         /\ i >= 2
         /\ board[i - 1].legalMoves.has
         /\ \A l \in 1..Len(given[i - 1]) : given[i - 1][l].hasEval)
            => (positions[i].classification = FORCED
                    <=> board[i - 1].legalMoves.v <= 1)

\* every move up to i has an opening name and a stored EPL below 0.01
C8_InBookPrefix(i) ==
    \A j \in 1..i : positions[j].opening /\ StoredEPL(positions[j]) < 10000

\* C8 as stated: when the legal-move count the Forced rule consulted is
\* exactly one, the move is labelled Forced when analyse returns.
C8_OneLegalMoveEndsForced ==
    Returned =>
        \A i \in 1..numMoves :
            board[i].legalMoves = Some(1) => positions[i].classification = FORCED

\* C8 amended: when the legal-move count the Forced rule consulted is exactly
\* one, the classification pass labels the move Forced whatever the
\* evaluations are, and when analyse returns the move is Forced unless the book
\* overlay relabelled it Book (it and every move before it have an opening
\* name and a stored EPL below 0.01).
C8_OneLegalMoveForcedOrBooked ==
    \A i \in Moves :
        board[i].legalMoves = Some(1) =>
            /\ (InClassificationPass /\ Classified(i))
                    => positions[i].classification = FORCED
            /\ Returned =>
                    positions[i].classification =
                        IF C8_InBookPrefix(i) THEN BOOK ELSE FORCED

C8_Witness ==
    /\ Returned
    /\ numMoves = 2
    /\ board[2].legalMoves = Some(1)
    /\ positions[2].cache.EPL > 200000
    /\ positions[2].opening
    /\ positions[2].classification = FORCED

\* C9: a Best move becomes Great by the turning-point rule only when the
\* mover's win probability before the move, seen from the mover's own side,
\* was <= 0.15 (and the played eval is roughly equal or winning), or the
\* pre-move position was roughly equal and the played eval is winning; a mover
\* clearly ahead before the move never gets Great through this rule.
C9_OwnMultiplier(pos) == IF pos.blackToMove THEN 1 ELSE -1
C9_OwnProbBefore(pos) ==
    getWinningChance(pos.cache.prevEvalWhite * C9_OwnMultiplier(pos),
                     Times(pos.cache.prevMateInWhite, C9_OwnMultiplier(pos)))
C9_GreatOnlyAtTurningPoint ==
    \A i \in Moves :
        LET last == positions[i - 1]
            pos == positions[i]
        IN  (/\ InClassificationPass
             /\ Classified(i)
             /\ pos.classification = GREAT
             /\ ~onlyGoodMove(last, pos)
             /\ ~(opponentBlundered(last) /\ significantGap(last)))
                => \/ /\ C9_OwnProbBefore(pos) <= 150000
                      /\ (nowEqual(pos) \/ nowWinning(pos))
                   \/ /\ Abs(pos.cache.prevEvalWhite) <= 50
                      /\ ~pos.cache.prevMateInWhite.has
                      /\ nowWinning(pos)

\* C10: a move ends Brilliant only if the played mover-relative eval is >= 0,
\* the position was not trivially winning (best >= 300 or a mate for the mover,
\* with second best >= 300 too), the SAN is no promotion, the mover was not in
\* check, and some hanging piece was viably capturable.
C10_BrilliantOnlyIf ==
    \A i \in Moves :
        positions[i].classification = BRILLIANT =>
            LET pos == positions[i]
                m == IF pos.blackToMove THEN 1 ELSE -1
                best == pos.cache.bestAfterWhite * m
                bestMate == Times(pos.cache.bestMateInWhite, m)
                second == IF HasLine(given[i - 1], 2)
                          THEN FindLine(given[i - 1], 2).evaluation.value * m
                          ELSE 0
                probe == board[i].probe
            IN  /\ pos.cache.playedAfterWhite * m >= 0
                /\ ~(/\ \/ (~bestMate.has /\ best >= 300)
                        \/ (bestMate.has /\ bestMate.v > 0)
                     /\ second >= 300)
                /\ probe.asked
                /\ ~probe.promotion
                /\ ~probe.inCheck
                /\ \E k \in 1..Len(probe.sacrificed) :
                    \E j \in 1..Len(probe.sacrificed[k].attempts) :
                        LET a == probe.sacrificed[k].attempts[j]
                        IN  /\ a.legal
                            /\ ~a.attackerPinned
                            /\ (probe.sacrificed[k].value >= 5 \/ ~a.mateInOne)

C10_Witness ==
    /\ Returned
    /\ \E i \in 1..numMoves :
        /\ positions[i].classification = BRILLIANT
        /\ positions[i].cache.playedAfterWhite = 0
        /\ Len(board[i].probe.sacrificed) = 1
        /\ ~positions[i].blackToMove

\* the boards were consulted for move i and the scan for hanging pieces ran
C11_Scanned(i) ==
    /\ i \in Moves
    /\ Classified(i)
    /\ pc = "passes"
    /\ board[i].probe.asked
    /\ ~board[i].probe.promotion
    /\ ~board[i].probe.inCheck

\* the capture attempts on the hanging pieces of move i, each with its piece
C11_Attempts(i) ==
    UNION {{<<board[i].probe.sacrificed[k],
              board[i].probe.sacrificed[k].attempts[j]>> :
                j \in 1..Len(board[i].probe.sacrificed[k].attempts)} :
            k \in 1..Len(board[i].probe.sacrificed)}

C11_AsStated(piece, attempt) ==
    /\ attempt.legal
    /\ (piece.value >= 5 \/ (~attempt.attackerPinned /\ ~attempt.mateInOne))

C11_AsCoded(piece, attempt) ==
    /\ attempt.legal
    /\ ~attempt.attackerPinned
    /\ (piece.value >= 5 \/ ~attempt.mateInOne)

\* C11 as stated: a scanned move is Brilliant exactly when some hanging piece
\* has a legal capture that, for a piece worth a rook or more, needs nothing
\* else, and for a lesser piece leaves the attacker unpinned and allows no
\* mate in one.
C11_RookSacrificeIgnoresPin ==
    \A i \in Moves :
        C11_Scanned(i) =>
            (positions[i].classification = BRILLIANT
                <=> \E a \in C11_Attempts(i) : C11_AsStated(a[1], a[2]))

\* C11 amended: a scanned move is Brilliant exactly when some hanging piece
\* has a legal capture that leaves the attacker unpinned and, for a piece
\* worth less than a rook, allows no mate in one; a rook or more is accepted
\* whatever the mate-in-one test says, but not when the attacker is pinned.
C11_RookSacrificeIgnoresMateInOne ==
    \A i \in Moves :
        C11_Scanned(i) =>
            (positions[i].classification = BRILLIANT
                <=> \E a \in C11_Attempts(i) : C11_AsCoded(a[1], a[2]))

C11_Witness ==
    /\ C11_Scanned(1)
    /\ positions[1].classification = BEST
    /\ board[1].probe.sacrificed =
        <<[value |-> 5,
           attempts |-> <<[legal |-> TRUE, attackerPinned |-> TRUE,
                           mateInOne |-> FALSE]>>]>>

\* the mover-relative played and best evals analyse cached for move i
C12_PlayedMover(i) ==
    positions[i].cache.playedAfterWhite * (IF positions[i].blackToMove THEN 1 ELSE -1)
C12_BestMover(i) ==
    positions[i].cache.bestAfterWhite * (IF positions[i].blackToMove THEN 1 ELSE -1)

\* C12: the step that follows the EPL tiers turns a Blunder into Good exactly
\* when the played mover-relative eval is >= 600 or the best mover-relative
\* eval is <= -600, leaves every other Blunder a Blunder, and leaves every
\* label other than Blunder and Best as it is (a Best may become Great or
\* Brilliant, nothing else).
C12_DemotionOnlyOfBlunder ==
    [][\A i \in Moves :
        (pc = "refine" /\ i = positionIndex) =>
            LET before == positions[i].classification
                after == positions'[i].classification
            IN  /\ before = BLUNDER =>
                    after = IF C12_PlayedMover(i) >= 600 \/ C12_BestMover(i) <= -600
                            THEN GOOD ELSE BLUNDER
                /\ before = BEST => after \in {BEST, GREAT, BRILLIANT}
                /\ before \notin {BLUNDER, BEST} => after = before]_vars

\* a Blunder-tier move with played eval 650 has ended Good
C12_Witness ==
    /\ pc = "passes"
    /\ positions[1].cache.EPL > 200000
    /\ C12_PlayedMover(1) = 650
    /\ C12_BestMover(1) > -600
    /\ positions[1].classification = GOOD

\* in array ps, every move up to i has an opening name and a stored EPL
\* strictly below 0.01
C13_BookPrefix(ps, i) ==
    \A j \in 1..i :
        /\ ps[j].opening
        /\ (IF ps[j].cache.cached THEN ps[j].cache.EPL ELSE 0) < 10000

\* C13: no move is Book before the overlay, and the overlay relabels move i
\* as Book exactly when every move j in 1..i has an opening name and a stored
\* EPL below 0.01, leaving every other label as it was; the Book moves are a
\* prefix of the game, and a move after the first failure is not Book even
\* when it has an opening name again.
C13_BookIsNamedPrefix ==
    [][pc = "passes" =>
        \A i \in 1..numMoves :
            /\ positions[i].classification # BOOK
            /\ positions'[i].classification =
                IF C13_BookPrefix(positions', i) THEN BOOK
                ELSE positions[i].classification
            /\ (i > 1 /\ positions'[i].classification = BOOK)
                    => positions'[i - 1].classification = BOOK]_vars

\* the first move fell out of the book, the second has an opening name and a
\* low EPL again and keeps the label it had
C13_Witness ==
    /\ Returned
    /\ numMoves = 2
    /\ ~positions[1].opening
    /\ positions[2].opening
    /\ positions[2].cache.cached
    /\ positions[2].cache.EPL < 10000
    /\ positions[2].classification = BEST
    /\ positions[1].classification # BOOK

\* the moves of a side that count for its accuracy, and what each adds
C14_Side(k) == IF positions[k].blackToMove THEN "white" ELSE "black"
C14_Counted(color) ==
    {k \in 1..numMoves :
        C14_Side(k) = color /\ positions[k].classification \notin {BOOK, FORCED}}
C14_Clamp(x) == IF x < 0 THEN 0 ELSE IF x > 100000000 THEN 100000000 ELSE x
C14_Contribution(k) ==
    C14_Clamp(100000000 - (IF positions[k].cache.cached
                           THEN positions[k].cache.EPL ELSE 0)
                                * leniencyFactor(positions[k]))
RECURSIVE C14_Sum(_)
C14_Sum(S) ==
    IF S = {} THEN 0
    ELSE LET k == CHOOSE x \in S : TRUE
         IN  C14_Contribution(k) + C14_Sum(S \ {k})

\* C14: for each side the returned accuracy is the sum of the clamped
\* contributions of its moves that are neither Book nor Forced, divided by
\* their number, and 100 when there is none; it lies within 0..100; four
\* contributing moves with EPL 0, 0.03, 0.12 and 0.25 and no leniency give 90.
C14_AccuracyIsMeanContribution ==
    Returned =>
        \A color \in {"white", "black"} :
            LET acc == report.accuracies[color]
                n == Cardinality(C14_Counted(color))
                a == reportedAccuracy(acc)
            IN  /\ acc.maximum = n
                /\ acc.current = C14_Sum(C14_Counted(color))
                /\ n = 0 => a = 100000000
                /\ n > 0 => (a * n <= acc.current /\ acc.current < (a + 1) * n)
                /\ 0 <= a /\ a <= 100000000
                /\ (/\ n = 4
                    /\ \A k \in C14_Counted(color) :
                            leniencyFactor(positions[k]) = 100
                    /\ {positions[k].cache.EPL : k \in C14_Counted(color)}
                            = {0, 30000, 120000, 250000})
                        => a = 90000000

C14_Witness ==
    /\ Returned
    /\ numMoves = 7
    /\ C14_Counted("white") = {1, 3, 5, 7}
    /\ {positions[k].cache.EPL : k \in C14_Counted("white")}
            = {0, 30000, 120000, 250000}
    /\ reportedAccuracy(report.accuracies["white"]) = 90000000
    /\ C14_Counted("black") = {}
    /\ reportedAccuracy(report.accuracies["black"]) = 100000000

\* the leniency factor, in per cent, of a mover whose own win probability
\* before the move was p
C15_OwnProbBefore(k) ==
    LET own == IF positions[k].blackToMove THEN 1 ELSE -1
    IN  getWinningChance(positions[k].cache.prevEvalWhite * own,
                         Times(positions[k].cache.prevMateInWhite, own))
C15_Factor(k) == IF C15_OwnProbBefore(k) <= 150000 THEN 70 ELSE 100
C15_Contribution(k) ==
    LET x == 100000000 - (IF positions[k].cache.cached
                          THEN positions[k].cache.EPL ELSE 0) * C15_Factor(k)
    IN  IF x < 0 THEN 0 ELSE IF x > 100000000 THEN 100000000 ELSE x
RECURSIVE C15_Sum(_)
C15_Sum(S) ==
    IF S = {} THEN 0
    ELSE LET k == CHOOSE x \in S : TRUE
         IN  C15_Contribution(k) + C15_Sum(S \ {k})

\* C15: the accuracies analyse returns are those obtained with the factor 0.7
\* on exactly the moves whose mover, seen from the mover's own side, had a win
\* probability <= 0.15 in the pre-move position, and the factor 1.0 on every
\* other move.
C15_LeniencyIffMoverWasLost ==
    Returned =>
        \A color \in {"white", "black"} :
            report.accuracies[color].current =
                C15_Sum({k \in 1..numMoves :
                            /\ (IF positions[k].blackToMove THEN "white" ELSE "black")
                                    = color
                            /\ positions[k].classification \notin {BOOK, FORCED}})

\* the moves a side made, and the sum of the eleven tallies of a side
C16_MovesOf(color) ==
    {k \in 1..numMoves :
        (IF positions[k].blackToMove THEN "white" ELSE "black") = color}
RECURSIVE C16_Total(_, _)
C16_Total(tally, labels) ==
    IF labels = {} THEN 0
    ELSE LET c == CHOOSE x \in labels : TRUE
         IN  tally[c] + C16_Total(tally, labels \ {c})

\* C16: when analyse returns, each side's tally of a label is the number of
\* that side's moves ending with the label, and the eleven tallies of a side
\* sum to the number of moves the side made.
C16_EveryMoveTalliedOnce ==
    Returned =>
        \A color \in {"white", "black"} :
            /\ \A c \in Classification :
                report.classifications[color][c] =
                    Cardinality({k \in C16_MovesOf(color) :
                                    positions[k].classification = c})
            /\ C16_Total(report.classifications[color], Classification)
                    = Cardinality(C16_MovesOf(color))

\* C18 as stated: once a position carries a label, no step of the run writes
\* a different label on it.
C18_LabelWrittenOnce ==
    [][\A i \in DOMAIN positions :
        positions[i].classification # Unset
            => positions'[i].classification = positions[i].classification]_vars

\* C18 amended: a label once written is replaced only in three ways: the
\* iteration that wrote Best upgrades it to Great or Brilliant, the same
\* iteration demotes Blunder to Good, and the book overlay replaces any label
\* by Book; otherwise it stays, and Forced is never changed by the loop.
C18_LabelRewrittenOnlyAsSpecified ==
    [][\A i \in DOMAIN positions :
        LET before == positions[i].classification
            after == positions'[i].classification
        IN  (before # Unset /\ after # before) =>
                \/ /\ pc = "refine" /\ i = positionIndex
                   /\ \/ before = BEST /\ after \in {GREAT, BRILLIANT}
                      \/ before = BLUNDER /\ after = GOOD
                \/ pc = "passes" /\ after = BOOK]_vars

\* a move written Forced by the loop has been relabelled Book by the overlay
C18_Witness ==
    /\ Returned
    /\ numMoves = 2
    /\ board[2].legalMoves = Some(1)
    /\ positions[2].classification = BOOK
    /\ positions[1].classification = BOOK
    /\ board[1].probe.asked

\* the moves the loop has reached with a usable PV1 before them and two or
\* more legal moves consulted by the Forced rule
C19_Compared(i) ==
    /\ InClassificationPass
    /\ Classified(i)
    /\ HasEvaluation(positions[i - 1].topLines)
    /\ board[i].legalMoves.has
    /\ board[i].legalMoves.v >= 2

\* C19 as stated: a move that is not the only legal one and whose pre-move
\* position has no second-best line is labelled Forced.
C19_NoSecondLineMeansForced ==
    \A i \in Moves :
        (C19_Compared(i) /\ ~hasSecondTopMove(positions[i - 1]))
            => positions[i].classification = FORCED

\* the first-stage label computed with the best evaluation standing in for
\* the missing second-best one and no second-best mate distance
C19_SubstitutedFirstStage(i) ==
    LET last == positions[i - 1]
        pos == positions[i]
        epl == ExpectedPointsLoss(last, pos)
    IN  IF epl <= BestEPL \/ topMove(last).moveUCI = pos.uci THEN BEST
        ELSE IF shouldBeMiss(bestAfterMover(last, pos),
                             bestAfterMover(last, pos),
                             playedAfterMover(pos),
                             bestMateInMover(last, pos),
                             None,
                             playedMateInMover(pos),
                             pos.uci,
                             topMove(last).moveUCI) THEN MISS
        ELSE Tier(epl)

\* C19 amended: with two or more legal moves consulted, a move is made Forced
\* by its second-best line only when that line is present without an
\* evaluation; when there is no second-best line at all the move is never
\* Forced and its first-stage label is the one computed with the best
\* evaluation substituted for the second-best.
C19_ForcedOnlyByUnevaluatedSecondLine ==
    /\ \A i \in Moves :
        C19_Compared(i) =>
            LET last == positions[i - 1]
            IN  /\ (hasSecondTopMove(last) /\ ~secondTopMove(last).hasEval)
                        => positions[i].classification = FORCED
                /\ ~hasSecondTopMove(last)
                        => positions[i].classification # FORCED
    /\ (pc = "refine" /\ ~hasSecondTopMove(positions[positionIndex - 1]))
            => positions[positionIndex].classification
                    = C19_SubstitutedFirstStage(positionIndex)

\* a move judged a Miss although the position before it had no second line
C19_Witness ==
    /\ pc = "refine"
    /\ ~hasSecondTopMove(positions[positionIndex - 1])
    /\ board[positionIndex].legalMoves = Some(2)
    /\ positions[positionIndex].classification = MISS

\* the line analyse pushes on position k when it finds no PV1 evaluation there
C20_Pushed(k) ==
    Synthesized(k \in DOMAIN board /\ board[k].isCheckmate = "yes")

\* C20 as stated: when analyse returns, every position given without a PV1
\* evaluation carries exactly one synthesized line after the given ones, its
\* move was evaluated with 0 as the played evaluation, and that move and all
\* later moves are labelled.
C20_UnevaluatedPositionIsSynthesized ==
    Returned =>
        \A k \in 0..numMoves :
            ~HasEvaluation(given[k]) =>
                /\ positions[k].topLines = Append(given[k], C20_Pushed(k))
                /\ k >= 1 => /\ positions[k].cache.cached
                             /\ positions[k].cache.playedAfterWhite = 0
                /\ \A j \in k..numMoves :
                        j >= 1 => positions[j].classification \in Classification

\* C17: when a second run of analyse on the same game returns, on the array
\* the first run mutated or on a fresh copy of the inputs, every position
\* carries the label the first run left on it and the report holds the same
\* tallies and accuracies; the second run returns whenever the first one did.
C17_AnalyseIdempotent ==
    previous.returned =>
        /\ pc # "threw"
        /\ Returned =>
            /\ \A k \in 0..numMoves :
                positions[k].classification = previous.labels[k]
            /\ report = previous.report

\* a second run has returned on a game where the first run pushed a line on
\* position 1, upgraded move 1 and found move 2 a Blunder
C17_Witness ==
    /\ previous.returned
    /\ Returned
    /\ numMoves = 2
    /\ given[1] = <<>>
    /\ Len(positions[1].topLines) = 1
    /\ positions[1].classification \in {GREAT, BRILLIANT}
    /\ positions[2].classification = BLUNDER
    /\ reportedAccuracy(report.accuracies.black) < FullAccuracy

\* C21 as stated: analyse never throws; a move whose pre-move position has a
\* PV2 line without an evaluation is labelled Forced by the loop, and the
\* passes after the loop run to the end and the report is returned.
C21_PartialDataNeverRaises ==
    /\ pc # "threw"
    /\ \A i \in Moves :
        (/\ InClassificationPass
         /\ Classified(i)
         /\ HasEvaluation(positions[i - 1].topLines)
         /\ hasSecondTopMove(positions[i - 1])
         /\ ~secondTopMove(positions[i - 1]).hasEval)
            => positions[i].classification = FORCED

ChanceCalled == chanceResult.called

\* C22: without a mate distance getWinningChance is non-decreasing in the
\* centipawns, is one half at 0 and p(x) + p(-x) = 1; with a mate distance it
\* ignores the centipawns and is 0.999 for a positive and 0.001 for a negative
\* distance.
C22_WinningChanceShape ==
    ChanceCalled =>
        IF chanceArgs.mateIn.has
        THEN /\ chanceResult.otherValue = chanceResult.value
             /\ chanceResult.negatedValue = chanceResult.value
             /\ chanceArgs.mateIn.v > 0 => chanceResult.value = 999000
             /\ chanceArgs.mateIn.v < 0 => chanceResult.value = 1000
        ELSE /\ chanceArgs.centipawns <= chanceArgs.other
                    => chanceResult.value <= chanceResult.otherValue
             /\ chanceArgs.centipawns = 0 => chanceResult.value = 500000
             /\ chanceResult.value + chanceResult.negatedValue = 1000000

\* a positive mate distance with losing centipawns has given 0.999
C22_Witness ==
    /\ ChanceCalled
    /\ chanceArgs.mateIn = Some(MateDistance)
    /\ chanceArgs.centipawns = -400
    /\ chanceArgs.other = 400
    /\ chanceResult.value = 999000

\* C24: a label becomes Great or Brilliant only in the step after the first
\* stage, only from Best, and a move for which one of the three Great
\* conditions holds (as analyse computes them) does not become Brilliant.
C24_UpgradesOnlyFromBestGreatFirst ==
    [][\A i \in DOMAIN positions' :
        LET after == positions'[i].classification
        IN  /\ (after \in {GREAT, BRILLIANT}
                    /\ (i \notin DOMAIN positions
                            \/ positions[i].classification # after))
                => /\ pc = "refine"
                   /\ i = positionIndex
                   /\ positions[i].classification = BEST
            /\ (pc = "refine" /\ i = positionIndex
                    /\ IsGreat(positions[i - 1], positions[i]))
                => after # BRILLIANT]_vars

\* a Best move that was eligible for the sacrifice test was made Great and the
\* boards were never consulted
C24_Witness ==
    /\ pc = "passes"
    /\ numMoves = 1
    /\ positions[1].classification = GREAT
    /\ FirstStage(positions[0], positions[1]) = BEST
    /\ sacrificeEligible(positions[0], positions[1])
    /\ ~board[1].probe.asked

\* every mate-scored line of `lines` has a centipawn value of the sign of its
\* mate distance
C26_SignConsistent(lines) ==
    \A l \in 1..Len(lines) :
        (lines[l].hasEval /\ lines[l].evaluation.mateIn.has) =>
            \/ lines[l].evaluation.value > 0 /\ lines[l].evaluation.mateIn.v > 0
            \/ lines[l].evaluation.value < 0 /\ lines[l].evaluation.mateIn.v < 0

\* C26: on sign-consistent lines no evaluated move has EPL > 0.20 together
\* with a played mover-relative eval >= 600 or a best mover-relative eval
\* <= -600, a Blunder stays a Blunder, and a move that ends the loop Good was
\* Good at the first stage.
C26_NoDemotionOnConsistentLines ==
    \A i \in Moves :
        (/\ positions[i].cache.cached
         /\ C26_SignConsistent(given[i - 1])
         /\ C26_SignConsistent(given[i]))
            => /\ ~(/\ positions[i].cache.EPL > 200000
                    /\ (C12_PlayedMover(i) >= 600 \/ C12_BestMover(i) <= -600))
               /\ (positions[i].classification = GOOD /\ positions[i].uci # Unread)
                    => FirstStage(positions[i - 1], positions[i]) = GOOD
               /\ (Classified(i) /\ positions[i].uci # Unread
                        /\ FirstStage(positions[i - 1], positions[i]) = BLUNDER)
                    => positions[i].classification = BLUNDER

\* a mover with a mate against them left a won position: a Blunder, kept
C26_Witness ==
    /\ pc = "passes"
    /\ C26_SignConsistent(given[0])
    /\ C26_SignConsistent(given[1])
    /\ given[1][1].evaluation.mateIn = Some(-MateDistance)
    /\ C12_BestMover(1) = 650
    /\ positions[1].cache.EPL > 200000
    /\ positions[1].classification = BLUNDER

\* what holds of the queue at every moment: the jobs are started in FEN
\* order, none twice, a started job has advanced the queue at most once and
\* exactly once when its bestmove callback or its timeout has acted, a
\* bestmove that came first has cancelled the timeout, and progress.current
\* does not pass progress.total
C28_QueueInOrder ==
    /\ Len(engine.closures) <= engine.progress.total
    /\ engine.progress.current <= engine.progress.total
    /\ \A k \in Closures :
        LET c == engine.closures[k]
        IN  /\ c.job.moveNumber = k - 1
            /\ c.advanced = (IF c.isComplete THEN 1 ELSE 0)
            /\ c.isComplete <=> (c.timeout # "armed" \/ c.answered)
            /\ c.timeout = "cleared" => c.answered
            /\ k < Len(engine.closures) => c.isComplete

\* every job has been started and has advanced the queue, and the hook no
\* longer reports that it is analysing
C28_QueueDone ==
    /\ ~engine.isAnalyzing
    /\ Len(engine.closures) = engine.progress.total
    /\ \A k \in Closures : engine.closures[k].advanced = 1

\* C28: after analyzeGame on a ready engine each job is started once, in FEN
\* order, and advances the queue exactly once, by its bestmove callback or by
\* its timeout; progress.current never exceeds progress.total; and isAnalyzing
\* becomes false, every job started, even if the engine stays silent.
C28_EveryJobOnceThenDone ==
    /\ []C28_QueueInOrder
    /\ (engine.run = 1) ~> C28_QueueDone

\* two jobs done: the first timed out and its bestmove came late, the second
\* was answered in time
C28_Witness ==
    /\ C28_QueueDone
    /\ engine.progress.total = 2
    /\ engine.closures[1].timeout = "fired"
    /\ engine.closures[1].answered
    /\ engine.closures[2].timeout = "cleared"

\* the lines of a node are all of the node's depth and in the order of their
\* multipv index
C29_ListAtDepth(node) ==
    \A j \in 1..Len(node.multiPv) :
        /\ node.multiPv[j].depth = node.depth
        /\ j > 1 => node.multiPv[j - 1].move < node.multiPv[j].move

\* C29: the depth a job tracks and the depth of its node never decrease, and
\* after every step the node's multiPv list holds only lines of the node's
\* depth, in multipv order.
C29_DepthSynchronized ==
    [][/\ \A k \in Closures :
            engine'.closures[k].currentDepth >= engine.closures[k].currentDepth
       /\ \A fen \in DOMAIN engine'.analysisMap :
            /\ C29_ListAtDepth(engine'.analysisMap[fen])
            /\ fen \in DOMAIN engine.analysisMap
                => engine'.analysisMap[fen].depth >= engine.analysisMap[fen].depth]_vars

\* after three lines a job is at depth 2 with a single line of multipv 2 in
\* its node
C29_Witness ==
    /\ Len(engine.closures) = 1
    /\ engine.closures[1].seen = 3
    /\ engine.closures[1].currentDepth = 2
    /\ <<0, 0>> \in DOMAIN engine.analysisMap
    /\ engine.analysisMap[<<0, 0>>].depth = 2
    /\ Len(engine.analysisMap[<<0, 0>>].multiPv) = 1
    /\ engine.analysisMap[<<0, 0>>].multiPv[1].move = 2

\* the jobs sent to the engine whose bestmove callback and timeout have both
\* yet to fire
C27_Outstanding == {k \in Closures : ~engine.closures[k].isComplete}

\* C27 as stated: at most one job is outstanding at any time, and every node
\* of the analysis map was written by a job of the run the map belongs to.
C27_OneJobOutstanding ==
    /\ Cardinality(C27_Outstanding) <= 1
    /\ \A fen \in DOMAIN engine.analysisMap :
        engine.analysisMap[fen].run = engine.run

\* C23 as stated: analyse is called at most once per analyzePGN run, only when
\* the engine reports that it is done and at least floor(0.9 n) of the n
\* positions of the game have a node.
C23_AnalyseOnlyOnCompleteData ==
    /\ \A j \in 1..Len(hook.invoked) :
        /\ hook.invoked[j].withNode >= (hook.invoked[j].fens * 9) \div 10
        /\ \A l \in 1..Len(hook.invoked) :
            hook.invoked[l].run = hook.invoked[j].run => l = j
    /\ Len(hook.invoked) <= hook.runs

\* a stored score and mate distance are those of the balance of the line of
\* multipv index m: the centipawns, or the mate distance with the placeholder
\* score of its sign
C25_Stored(score, mateIn, m) ==
    IF mateIn = None
    THEN score = Balance("cp", m)
    ELSE /\ mateIn = Some(Balance("mate", m))
         /\ score = (IF Balance("mate", m) > 0 THEN MatePlaceholder
                     ELSE -MatePlaceholder)

\* C25: every score and mate distance stored in a line or a node, and handed
\* on to analyse, is the engine's side-to-move value turned white-relative:
\* it equals the balance of the line whichever side is to move.
C25_StoredWhiteRelative ==
    \A fen \in DOMAIN engine.analysisMap :
        LET node == engine.analysisMap[fen]
        IN  /\ \A j \in 1..Len(node.multiPv) :
                /\ C25_Stored(node.multiPv[j].score, node.multiPv[j].mateIn,
                              node.multiPv[j].move)
                /\ C25_Stored(topLineEvaluation(node.multiPv[j]).value,
                              topLineEvaluation(node.multiPv[j]).mateIn,
                              node.multiPv[j].move)
            /\ (node.score # 0 \/ node.mateIn # None)
                => C25_Stored(node.score, node.mateIn, 1)

\* the engine reported +s with White to move and -s one ply later, and a mate
\* for the side to move there: both nodes store +s, the mate is Black's
C25_Witness ==
    /\ <<0, 0>> \in DOMAIN engine.analysisMap
    /\ <<1, 1>> \in DOMAIN engine.analysisMap
    /\ engine.analysisMap[<<0, 0>>].score = 30
    /\ engine.analysisMap[<<0, 0>>].mateIn = None
    /\ engine.analysisMap[<<1, 1>>].score = 30
    /\ engine.analysisMap[<<1, 1>>].mateIn = None
    /\ Len(engine.analysisMap[<<1, 1>>].multiPv) = 2
    /\ engine.analysisMap[<<1, 1>>].multiPv[2].mateIn = Some(-MateDistance)
    /\ engine.analysisMap[<<1, 1>>].multiPv[2].score = -MatePlaceholder

====
